---- MODULE Spec2Model ----
(***************************************************************************)
(* Teacher-Ai: the AI generation pipeline of src/app.py.                   *)
(*                                                                         *)
(* OllamaClient (is_available, generate_response) and the three service    *)
(* functions generate_chat_response, generate_quiz_questions and           *)
(* generate_pdf_content, run against an inference server whose replies are *)
(* chosen by the environment.                                              *)
(*                                                                         *)
(* Text is a sequence of tokens.  A token is a record [c, s]: class "w" is  *)
(* a run of characters without brackets (a fixed fragment of the source, a *)
(* word of prose); the other classes are the lexical tokens of JSON: "[",  *)
(* "]", "{", "}", ",", "key" (a member name with its colon), "str" (a      *)
(* string literal whose content is s) and "num".  The only tokens holding  *)
(* a bracket character are those of class "[" and "]".  A Python value is  *)
(* a tagged record [t, v]; the v of a str is its text.                     *)
(***************************************************************************)
EXTENDS Integers, Sequences, FiniteSets, TLC

VARIABLES pc, op, args, probe, requests, replies, sections, result, raised,
          chat_messages, chat_sessions, clock, folded,
          threads, client,
          session, flashed, http_request, http_response, body_ran, users,
          db_schema, script_run, quiz_sessions, quiz_questions

vars == <<pc, op, args, probe, requests, replies, sections, result, raised,
          chat_messages, chat_sessions, clock, folded,
          threads, client,
          session, flashed, http_request, http_response, body_ran, users,
          db_schema, script_run, quiz_sessions, quiz_questions>>

\* the service call in progress
callvars == <<pc, op, args, probe, requests, replies, sections, result, raised>>

\* the chat_messages table, the titles of chat_sessions, the clock behind
\* CURRENT_TIMESTAMP (whole seconds), and the context the last send_message
\* handed to generate_chat_response
dbvars == <<chat_messages, chat_sessions, clock, folded>>

\* the service calls running on the threads of the server, each with its
\* locals, and the one OllamaClient they share
concvars == <<threads, client>>

\* the browser session of one visitor, the messages flashed by the last
\* request, the last request and its response, the handler body that ran
\* for it, and the users table
webvars == <<session, flashed, http_request, http_response, body_ran, users>>

\* the file teacher_ai.db beyond the tables above: the schema its tables
\* were created with, the outcome of the last set-up script run on it, and
\* the tables quiz_sessions and quiz_questions
filevars == <<db_schema, script_run, quiz_sessions, quiz_questions>>

\* what a step of one part of the program leaves alone
notcallvars == <<dbvars, concvars, webvars, filevars>>
notdbvars == <<callvars, concvars, webvars, filevars>>
notconcvars == <<callvars, dbvars, webvars, filevars>>
notwebvars == <<callvars, dbvars, concvars, filevars>>

(***************************************************************************)
(* Bounds of the model.                                                    *)
(***************************************************************************)
MaxTurns == 6
MaxItems == 2
\* rows of chat_messages
MaxRows == 6
\* seconds the clock advances
MaxClock == 1

(***************************************************************************)
(* Tokens.                                                                 *)
(***************************************************************************)
Tok(c, s) == [c |-> c, s |-> s]
W(s) == Tok("w", s)
LB == Tok("[", "")
RB == Tok("]", "")
LC == Tok("{", "")
RC == Tok("}", "")
COMMA == Tok(",", "")
Key(name) == Tok("key", name)
StrLit(s) == Tok("str", s)
NumLit(s) == Tok("num", s)

(***************************************************************************)
(* Python values.                                                          *)
(***************************************************************************)
PyNone == [t |-> "none", v |-> <<>>]
PyStr(toks) == [t |-> "str", v |-> toks]
PyNum(s) == [t |-> "num", v |-> <<W(s)>>]
PyBool(b) == [t |-> "bool", v |-> <<W(IF b THEN "True" ELSE "False")>>]
PyList(elems) == [t |-> "list", v |-> elems]
PyDict(pairs) == [t |-> "dict", v |-> pairs]

Pair(key, val) == [k |-> key, val |-> val]

HasKey(d, key) == \E i \in 1..Len(d.v) : d.v[i].k = key

\* dict.get(key, default)
DictGet(d, key, default) ==
    IF HasKey(d, key)
    THEN d.v[CHOOSE i \in 1..Len(d.v) : d.v[i].k = key].val
    ELSE default

\* d[key] = val : an existing key keeps its position, a new key is appended
DictSet(d, key, val) ==
    IF HasKey(d, key)
    THEN PyDict([i \in 1..Len(d.v) |->
                    IF d.v[i].k = key THEN Pair(key, val) ELSE d.v[i]])
    ELSE PyDict(Append(d.v, Pair(key, val)))

Keys(d) == [i \in 1..Len(d.v) |-> d.v[i].k]

\* str(x) inside an f-string
Format(x) == IF x.t = "none" THEN <<W("None")>> ELSE x.v

\* bool(x) for the values an `if x:` tests here
Truthy(x) == x.t /= "none" /\ x.v /= <<>>

\* a returned value, or an exception in flight
Ret(val) == [exc |-> "none", val |-> val]
Raise(cls, msg) == [exc |-> cls, val |-> PyStr(msg)]

RECURSIVE Join(_, _)
Join(sep, parts) ==
    IF parts = <<>> THEN <<>>
    ELSE IF Len(parts) = 1 THEN parts[1]
    ELSE parts[1] \o sep \o Join(sep, Tail(parts))

Max(a, b) == IF a >= b THEN a ELSE b
Min(a, b) == IF a <= b THEN a ELSE b

\* seq[-n:]
SliceLast(seq, n) == SubSeq(seq, Max(1, Len(seq) - n + 1), Len(seq))

(***************************************************************************)
(* The inference server's replies.                                         *)
(***************************************************************************)
OK == 200
Statuses == {200, 404, 500}

Reply(kind, status, json, body, text) ==
    [kind |-> kind, status |-> status, json |-> json, body |-> body, text |-> text]

\* the transport gave up waiting
TimeoutReply == Reply("timeout", 0, "none", PyNone, <<>>)
\* the transport failed; text is str(e)
ConnErrReply(cause) == Reply("connerr", 0, "none", PyNone, cause)
\* an HTTP response whose body is not JSON
RawReply(status, text) == Reply("http", status, "invalid", PyNone, text)
\* an HTTP response whose body is the JSON value body
JsonReply(status, body) == Reply("http", status, "valid", body, <<W("json-body")>>)

ProbeReplies ==
    {TimeoutReply, ConnErrReply(<<W("Connection refused")>>)}
        \cup {RawReply(s, <<W("tags")>>) : s \in Statuses}

(***************************************************************************)
(* OllamaClient                                                            *)
(***************************************************************************)
GetRequest(path) ==
    [method |-> "GET", path |-> path, model |-> "", prompt |-> <<>>,
     hasSystem |-> FALSE, system |-> <<>>, stream |-> FALSE]

PostGenerate(prompt, system_prompt) ==
    [method |-> "POST", path |-> "/api/generate", model |-> "llama3.2",
     prompt |-> prompt,
     hasSystem |-> Truthy(system_prompt),
     system |-> IF Truthy(system_prompt) THEN system_prompt.v ELSE <<>>,
     stream |-> FALSE]

\* session.get / session.post: the response, or the transport's exception
Transport(reply) ==
    IF reply.kind = "timeout" THEN Raise("Timeout", <<W("Read timed out.")>>)
    ELSE IF reply.kind = "connerr" THEN Raise("ConnectionError", reply.text)
    ELSE Ret(reply)

\* response.json()
ResponseJson(reply) ==
    IF reply.json = "valid" THEN Ret(reply.body)
    ELSE Raise("JSONDecodeError", <<W("Expecting value: line 1 column 1 (char 0)")>>)

\* the status of the probe's response is not looked at
is_available_any_status(reply) == Transport(reply).exc = "none"

\* only a server error counts as unavailable
is_available_not_server_error(reply) ==
    LET r == Transport(reply)
    IN  IF r.exc /= "none" THEN FALSE
        ELSE reply.status < 500

is_available(reply) ==
    LET r == Transport(reply)
    IN  IF r.exc /= "none" THEN FALSE
        ELSE reply.status = OK

\* the try block of list_models: a value returned, an exception, or
\* "fell" when the block ends without returning
ListModelsTry(reply) ==
    LET r == Transport(reply)
    IN  IF r.exc /= "none" THEN r
        ELSE IF reply.status = OK
        THEN LET j == ResponseJson(reply)
             IN  IF j.exc /= "none" THEN j
                 ELSE IF j.val.t /= "dict"
                 THEN Raise("AttributeError", <<W("object has no attribute 'get'")>>)
                 ELSE Ret(DictGet(j.val, "models", PyList(<<>>)))
        ELSE [exc |-> "fell", val |-> PyNone]

list_models(reply) ==
    LET r == ListModelsTry(reply)
    IN  IF r.exc = "none" THEN r.val ELSE PyList(<<>>)

\* the try block of generate_response
GenerateTry(reply) ==
    LET r == Transport(reply)
    IN  IF r.exc /= "none" THEN r
        ELSE IF reply.status = OK
        THEN LET j == ResponseJson(reply)
             IN  IF j.exc /= "none" THEN j
                 ELSE IF j.val.t /= "dict"
                 THEN Raise("AttributeError", <<W("object has no attribute 'get'")>>)
                 ELSE Ret(DictGet(j.val, "response",
                                  PyStr(<<W("Sorry, I could not generate a response.")>>)))
        ELSE Ret(PyStr(<<W("Error: "), W(ToString(reply.status)), W(" - ")>> \o reply.text))

\* no except clause for Timeout: a timeout is reported as a connection error
generate_response_no_timeout_branch(reply) ==
    LET r == GenerateTry(reply)
    IN  IF r.exc = "none" THEN r
        ELSE Ret(PyStr(<<W("Error connecting to Ollama: ")>> \o r.val.v))

generate_response(reply) ==
    LET r == GenerateTry(reply)
    IN  IF r.exc = "none" THEN r
        ELSE IF r.exc = "Timeout"
        THEN Ret(PyStr(<<W("Request timed out. The model might be processing a complex query.")>>))
        ELSE Ret(PyStr(<<W("Error connecting to Ollama: ")>> \o r.val.v))

(***************************************************************************)
(* generate_chat_response                                                  *)
(***************************************************************************)
CONTEXT_LIMIT == 5

UNAVAILABLE_MSG ==
    PyStr(<<W("Ollama is not available. Please make sure Ollama is running on your system.")>>)

CHAT_SYSTEM_PROMPT ==
    PyStr(<<W("You are a helpful AI teaching assistant.")>>)

\* one prior turn as rendered into the prompt
RenderTurn(msg) ==
    <<W("User: ")>> \o Format(DictGet(msg, "message", PyStr(<<>>)))
        \o <<W("\nAssistant: ")>> \o Format(DictGet(msg, "response", PyStr(<<>>)))

\* context[:5], the first turns instead of the last
ContextWindow_first(context) == SubSeq(context.v, 1, Min(Len(context.v), CONTEXT_LIMIT))

ContextWindow(context) == SliceLast(context.v, CONTEXT_LIMIT)

ContextPrompt(context) ==
    IF Truthy(context)
    THEN LET window == ContextWindow(context)
         IN  Join(<<W("\n")>>, [i \in 1..Len(window) |-> RenderTurn(window[i])])
                 \o <<W("\n\n")>>
    ELSE <<>>

ChatPrompt(message, context) ==
    ContextPrompt(context) \o <<W("User: ")>> \o message \o <<W("\nAssistant:")>>

(***************************************************************************)
(* json.loads on a text: the value, or a failure.  The whole text must be  *)
(* one JSON value.                                                         *)
(***************************************************************************)
ParseFail == [ok |-> FALSE, val |-> PyNone, next |-> 0]
ParseOk(val, next) == [ok |-> TRUE, val |-> val, next |-> next]

RECURSIVE ParseValue(_, _), ParseElements(_, _, _), ParseMembers(_, _, _)

\* the JSON value that starts at toks[i]
ParseValue(toks, i) ==
    IF i > Len(toks) THEN ParseFail
    ELSE IF toks[i].c = "str"
    THEN ParseOk(PyStr(IF toks[i].s = "" THEN <<>> ELSE <<W(toks[i].s)>>), i + 1)
    ELSE IF toks[i].c = "num" THEN ParseOk(PyNum(toks[i].s), i + 1)
    ELSE IF toks[i].c = "["
    THEN IF i + 1 <= Len(toks) /\ toks[i + 1].c = "]"
         THEN ParseOk(PyList(<<>>), i + 2)
         ELSE ParseElements(toks, i + 1, <<>>)
    ELSE IF toks[i].c = "{"
    THEN IF i + 1 <= Len(toks) /\ toks[i + 1].c = "}"
         THEN ParseOk(PyDict(<<>>), i + 2)
         ELSE ParseMembers(toks, i + 1, PyDict(<<>>))
    ELSE ParseFail

\* value ("," value)* "]"
ParseElements(toks, i, acc) ==
    LET r == ParseValue(toks, i)
    IN  IF ~r.ok \/ r.next > Len(toks) THEN ParseFail
        ELSE IF toks[r.next].c = ","
        THEN ParseElements(toks, r.next + 1, Append(acc, r.val))
        ELSE IF toks[r.next].c = "]"
        THEN ParseOk(PyList(Append(acc, r.val)), r.next + 1)
        ELSE ParseFail

\* key value ("," key value)* "}" ; a repeated key keeps its last value
ParseMembers(toks, i, acc) ==
    IF i > Len(toks) \/ toks[i].c /= "key" THEN ParseFail
    ELSE LET r == ParseValue(toks, i + 1)
         IN  IF ~r.ok \/ r.next > Len(toks) THEN ParseFail
             ELSE IF toks[r.next].c = ","
             THEN ParseMembers(toks, r.next + 1, DictSet(acc, toks[i].s, r.val))
             ELSE IF toks[r.next].c = "}"
             THEN ParseOk(DictSet(acc, toks[i].s, r.val), r.next + 1)
             ELSE ParseFail

json_loads(toks) ==
    LET r == ParseValue(toks, 1)
    IN  IF r.ok /\ r.next = Len(toks) + 1 THEN Ret(r.val)
        ELSE Raise("JSONDecodeError", <<W("Expecting value")>>)

(***************************************************************************)
(* re.search(r'\[.*\]', text, re.DOTALL): the leftmost '[' and, greedily,  *)
(* the last ']' after it.                                                  *)
(***************************************************************************)
Opens(toks) == {i \in 1..Len(toks) : toks[i].c = "["}
Closes(toks) == {i \in 1..Len(toks) : toks[i].c = "]"}

SetMin(S) == CHOOSE x \in S : \A y \in S : x <= y
SetMax(S) == CHOOSE x \in S : \A y \in S : x >= y

NoMatch == [found |-> FALSE, group |-> <<>>]

\* r'\[.*?\]', the lazy quantifier: the first ']' after the leftmost '['
re_search_lazy(toks) ==
    IF Opens(toks) = {} THEN NoMatch
    ELSE LET first == SetMin(Opens(toks))
             after == {j \in Closes(toks) : j > first}
         IN  IF after = {} THEN NoMatch
             ELSE [found |-> TRUE, group |-> SubSeq(toks, first, SetMin(after))]

\* r'.*\]', no opening bracket in the pattern: from the start of the text to
\* the last ']'
re_search_from_start(toks) ==
    IF Opens(toks) = {} THEN NoMatch
    ELSE LET first == SetMin(Opens(toks))
             after == {j \in Closes(toks) : j > first}
         IN  IF after = {} THEN NoMatch
             ELSE [found |-> TRUE, group |-> SubSeq(toks, 1, SetMax(after))]

re_search(toks) ==
    IF Opens(toks) = {} THEN NoMatch
    ELSE LET first == SetMin(Opens(toks))
             after == {j \in Closes(toks) : j > first}
         IN  IF after = {} THEN NoMatch
             ELSE [found |-> TRUE, group |-> SubSeq(toks, first, SetMax(after))]

(***************************************************************************)
(* generate_quiz_questions                                                 *)
(***************************************************************************)
OptionList(a, b, c, d) ==
    PyList(<<PyStr(<<W(a)>>), PyStr(<<W(b)>>), PyStr(<<W(c)>>), PyStr(<<W(d)>>)>>)

\* the sample question does not name the topic
QuizUnavailable_no_topic(topic) ==
    PyList(<<PyDict(<<
        Pair("question", PyStr(<<W("Sample question?")>>)),
        Pair("options", OptionList("Option A", "Option B", "Option C", "Option D")),
        Pair("correct", PyStr(<<W("A")>>))>>)>>)

\* returned when the server is not available
QuizUnavailable(topic) ==
    PyList(<<PyDict(<<
        Pair("question", PyStr(<<W("Sample question about "), W(topic), W("?")>>)),
        Pair("options", OptionList("Option A", "Option B", "Option C", "Option D")),
        Pair("correct", PyStr(<<W("A")>>))>>)>>)

\* returned when no JSON array is extracted from the response
QuizFallback(topic) ==
    PyList(<<PyDict(<<
        Pair("question",
             PyStr(<<W("What is an important concept to understand about "),
                     W(topic), W("?")>>)),
        Pair("options", OptionList("It requires foundational knowledge",
                                   "It can be learned quickly",
                                   "It has no practical applications",
                                   "It is only theoretical")),
        Pair("correct", PyStr(<<W("A")>>)),
        Pair("explanation",
             PyStr(<<W("Understanding foundational concepts is crucial for mastering any topic.")>>))>>)>>)

QuizSystemPrompt(topic, difficulty, num_questions) ==
    PyStr(<<W("You are an expert quiz generator. Create "), W(ToString(num_questions)),
            W(" multiple choice questions about "), W(topic), W(" at "), W(difficulty),
            W(" level. Format your response as a JSON array with this exact structure: ... Return valid JSON only")>>)

QuizPrompt(topic, difficulty, num_questions) ==
    <<W("Generate "), W(ToString(num_questions)), W(" "), W(difficulty),
      W(" level multiple choice questions about: "), W(topic)>>

\* the try block that extracts the JSON array: a value returned, an
\* exception, or "fell" when the block ends without returning
ExtractTry(response) ==
    IF response.t /= "str"
    THEN Raise("TypeError", <<W("expected string or bytes-like object")>>)
    ELSE LET json_match == re_search(response.v)
         IN  IF json_match.found
             THEN json_loads(json_match.group)
             ELSE [exc |-> "fell", val |-> PyNone]

\* the fallback of the unavailable server returned in place of the parser's
ExtractQuiz_other_fallback(response, topic) ==
    LET r == ExtractTry(response)
    IN  IF r.exc = "none" THEN r.val ELSE QuizUnavailable(topic)

\* generate_quiz_questions from the text generate_response returned
ExtractQuiz(response, topic) ==
    LET r == ExtractTry(response)
    IN  IF r.exc = "none" THEN r.val ELSE QuizFallback(topic)

(***************************************************************************)
(* generate_pdf_content                                                    *)
(***************************************************************************)
\* the prompt of one section is missing from the dict literal
SectionKeys_missing ==
    <<"introduction", "key_concepts", "examples", "summary">>

\* the keys of section_prompts, in the order of the dict literal
SectionKeys ==
    <<"introduction", "key_concepts", "examples", "practice_questions", "summary">>

\* the summary placeholder does not name the topic
DocUnavailable_generic_summary(topic) ==
    PyDict(<<
        Pair("introduction", PyStr(<<W("This study material covers "), W(topic), W(".")>>)),
        Pair("key_concepts", PyStr(<<W("Key concepts related to "), W(topic), W(".")>>)),
        Pair("examples", PyStr(<<W("Practical examples of "), W(topic), W(".")>>)),
        Pair("practice_questions", PyStr(<<W("Practice questions about "), W(topic), W(".")>>)),
        Pair("summary", PyStr(<<W("Summary of the concepts.")>>))>>)

\* returned when the server is not available
DocUnavailable(topic) ==
    PyDict(<<
        Pair("introduction", PyStr(<<W("This study material covers "), W(topic), W(".")>>)),
        Pair("key_concepts", PyStr(<<W("Key concepts related to "), W(topic), W(".")>>)),
        Pair("examples", PyStr(<<W("Practical examples of "), W(topic), W(".")>>)),
        Pair("practice_questions", PyStr(<<W("Practice questions about "), W(topic), W(".")>>)),
        Pair("summary", PyStr(<<W("Summary of "), W(topic), W(" concepts.")>>))>>)

DOC_SYSTEM_PROMPT ==
    PyStr(<<W("You are an expert educational content creator.")>>)

SectionPrompt(section, topic) ==
    <<W("Write the section "), W(section), W(" about "), W(topic)>>

SectionPlaceholder(section) ==
    PyStr(<<W("Content for "), W(section), W(" could not be generated at this time.")>>)

\* one buffer behind every section: the last text stored shows in all of them
StoreSection_shared_buffer(secs, section, out) ==
    DictSet(PyDict([i \in 1..Len(secs.v) |-> Pair(secs.v[i].k, out.val)]),
            section, out.val)

\* the body of the loop over section_prompts.items(): out is what the call
\* of generate_response produced
StoreSection(secs, section, out) ==
    IF out.exc = "none"
    THEN DictSet(secs, section, out.val)
    ELSE DictSet(secs, section, SectionPlaceholder(section))

(***************************************************************************)
(* Inputs                                                                  *)
(***************************************************************************)
Turn(m, r) == PyDict(<<Pair("message", PyStr(<<W(m)>>)), Pair("response", r)>>)

Turns == {Turn("m1", PyStr(<<W("r1")>>)), Turn("m2", PyNone)}

RECURSIVE SeqsUpTo(_, _)
SeqsUpTo(S, n) ==
    IF n = 0 THEN {<<>>}
    ELSE LET shorter == SeqsUpTo(S, n - 1)
         IN  shorter \cup {Append(s, x) : s \in {q \in shorter : Len(q) = n - 1}, x \in S}

Contexts == {PyNone} \cup {PyList(s) : s \in SeqsUpTo(Turns, MaxTurns)}

Messages == {<<W("What is gravity?")>>, <<W("m9")>>}

ChatTexts == {<<W("Gravity is a force.")>>, <<W("w"), LB, NumLit("1"), RB>>}

\* the replies that do not carry a text of the model
FailureReplies ==
    {TimeoutReply,
     ConnErrReply(<<W("Max retries exceeded: "), LB, W("Errno 111"), RB,
                    W(" Connection refused")>>),
     RawReply(OK, <<W("<html>")>>),
     JsonReply(OK, PyDict(<<>>)),
     JsonReply(OK, PyDict(<<Pair("response", PyNone)>>)),
     JsonReply(OK, PyList(<<>>))}

TextReply(t) == JsonReply(OK, PyDict(<<Pair("response", PyStr(t))>>))

ChatReplies ==
    FailureReplies \cup {RawReply(500, <<W("internal error")>>)}
        \cup {TextReply(t) : t \in ChatTexts}

\* what the model writes for a Python value: JSON, as the quiz prompt asks
RECURSIVE RenderJson(_)
RenderJson(x) ==
    IF x.t = "str" THEN <<StrLit(IF x.v = <<>> THEN "" ELSE x.v[1].s)>>
    ELSE IF x.t = "num" THEN <<NumLit(x.v[1].s)>>
    ELSE IF x.t = "list"
    THEN <<LB>> \o Join(<<COMMA>>, [i \in 1..Len(x.v) |-> RenderJson(x.v[i])]) \o <<RB>>
    ELSE <<LC>> \o Join(<<COMMA>>, [i \in 1..Len(x.v) |->
                            <<Key(x.v[i].k)>> \o RenderJson(x.v[i].val)]) \o <<RC>>

ABCD == OptionList("a", "b", "c", "d")

Good1 ==
    PyDict(<<Pair("question", PyStr(<<W("Q1?")>>)), Pair("options", ABCD),
             Pair("correct", PyStr(<<W("B")>>)),
             Pair("explanation", PyStr(<<W("because")>>))>>)
Good2 ==
    PyDict(<<Pair("question", PyStr(<<W("Q2?")>>)), Pair("options", ABCD),
             Pair("correct", PyStr(<<W("A")>>))>>)
EmptyQuestion ==
    PyDict(<<Pair("question", PyStr(<<>>)), Pair("options", ABCD),
             Pair("correct", PyStr(<<W("A")>>))>>)
ThreeOptions ==
    PyDict(<<Pair("question", PyStr(<<W("Q3?")>>)),
             Pair("options", PyList(SubSeq(ABCD.v, 1, 3))),
             Pair("correct", PyStr(<<W("C")>>))>>)
BadLabel ==
    PyDict(<<Pair("question", PyStr(<<W("Q4?")>>)), Pair("options", ABCD),
             Pair("correct", PyStr(<<W("E")>>))>>)

ModelItems == {Good1, Good2, EmptyQuestion, ThreeOptions, BadLabel}

ModelArrays == {PyList(a) : a \in SeqsUpTo(ModelItems, MaxItems)}

\* prose the model may put before and after its JSON array
ProseBefore ==
    {<<>>, <<W("Sure! Here you go: ")>>, <<W("1) done"), RB, W(" now: ")>>,
     <<W("As in "), LB, NumLit("1"), RB, W(": ")>>}
ProseAfter ==
    {<<>>, <<W(" Hope that helps.")>>, <<W(" and "), LB, W("more")>>,
     <<W(" see "), LB, NumLit("2"), RB>>}

OtherTexts ==
    {<<W("I cannot help with that.")>>,
     RenderJson(Good1),
     SubSeq(RenderJson(PyList(<<Good1>>)), 1, Len(RenderJson(PyList(<<Good1>>))) - 1),
     <<LB, NumLit("1"), COMMA, RB>>,
     <<W("See "), LB, NumLit("1"), RB, W(" for details.")>>}

QuizTexts ==
    {pre \o RenderJson(a) \o post :
        pre \in ProseBefore, a \in ModelArrays, post \in ProseAfter}
        \cup OtherTexts

ErrorBodies ==
    {<<W("Internal Server Error")>>,
     RenderJson(PyDict(<<Pair("error", PyStr(<<W("model not found")>>))>>)),
     <<LB, RB>>,
     RenderJson(PyList(<<Good1>>))}

QuizReplies ==
    FailureReplies
        \cup {JsonReply(OK, PyDict(<<Pair("response", PyNum("1"))>>))}
        \cup {RawReply(s, b) : s \in Statuses \ {OK}, b \in ErrorBodies}
        \cup {TextReply(t) : t \in QuizTexts}

DocTexts == {<<W("text one")>>, <<W("text two")>>}

DocReplies ==
    {TimeoutReply, ConnErrReply(<<W("Connection aborted.")>>),
     RawReply(500, <<W("internal error")>>),
     JsonReply(OK, PyDict(<<Pair("response", PyNone)>>))}
        \cup {TextReply(t) : t \in DocTexts}

\* outcomes of a POST issued by a direct call of generate_response
GenerateReplies == ChatReplies \cup {RawReply(404, <<W("model not found")>>)}

GenReplies(o) ==
    IF o = "chat" THEN ChatReplies
    ELSE IF o = "quiz" THEN QuizReplies
    ELSE IF o = "generate" THEN GenerateReplies
    ELSE DocReplies

\* the system_prompt argument of generate_response: absent, empty, given
SystemPrompts == {PyNone, PyStr(<<>>), CHAT_SYSTEM_PROMPT}

ModelDescriptor(name) ==
    PyDict(<<Pair("name", PyStr(<<W(name)>>)), Pair("size", PyNum("2019393189"))>>)

ModelLists ==
    {PyList(<<>>), PyList(<<ModelDescriptor("llama3.2")>>),
     PyList(<<ModelDescriptor("llama3.2"), ModelDescriptor("mistral")>>)}

\* outcomes of the GET /api/tags of list_models; the call passes no timeout,
\* so the transport never gives up waiting
ModelsReplies ==
    {ConnErrReply(<<W("Connection refused")>>),
     RawReply(OK, <<W("<html>")>>), RawReply(500, <<W("internal error")>>),
     JsonReply(OK, PyDict(<<>>)),
     JsonReply(OK, PyDict(<<Pair("models", PyNone)>>)),
     JsonReply(OK, PyList(<<ModelDescriptor("llama3.2")>>))}
        \cup {JsonReply(st, PyDict(<<Pair("models", l)>>)) : st \in {OK, 404}, l \in ModelLists}

Topics == {"Photosynthesis", "Recursion"}
Difficulties == {"beginner", "intermediate"}
Counts == {3, 5}

NoArgs == [message |-> <<>>, context |-> PyNone, topic |-> "",
           difficulty |-> "", num_questions |-> 0, system_prompt |-> PyNone]

\* the two chat sessions of the model, with the title new_chat gives them
NewChatSessions == [sid \in {"s1", "s2"} |-> <<W("New Chat")>>]

\* the columns the tables of teacher_ai.db were created with: users with
\* password_hash and is_admin, or with role; quiz tables without or with
\* the columns difficulty and explanation; table ai_models or not
Schema(u, q, m) == [users |-> u, quiz |-> q, ai_models |-> m]
\* no file, or a file without tables
NoSchema == Schema("none", "none", FALSE)
\* tables as created by setup_database.py
SetupSchema == Schema("password", "short", FALSE)
\* tables as created by reset_database.py
ResetSchema == Schema("password", "full", TRUE)
\* tables as created by init_db of the application and by simple_setup.py
AppSchema == Schema("role", "full", FALSE)

NoScript == [name |-> "none", raised |-> FALSE]

\* the session before any login, and after session.clear()
EmptySession == [k \in {} |-> PyNone]

\* a form as a function from the names of its fields to their values
NoForm == [k \in {} |-> <<>>]
NoRequest == [method |-> "none", route |-> "none", form |-> NoForm]
NoResponse == [kind |-> "none", target |-> "none"]

\* the request threads of the server that run service calls side by side
Threads == {1, 2}

\* the locals of a service call on a thread, before the call; overlapped
\* records that another thread was inside a call during one of its steps
IdleThread ==
    [pc |-> "Idle", op |-> "none", args |-> NoArgs, probe |-> TimeoutReply,
     requests |-> <<>>, replies |-> <<>>, sections |-> PyDict(<<>>),
     result |-> PyNone, overlapped |-> FALSE]

\* ollama_client = OllamaClient(): the attributes set by __init__
OLLAMA_BASE_URL == "http://localhost:11434"
OllamaClient == [base_url |-> OLLAMA_BASE_URL, session |-> "requests.Session"]

\* arguments and replies of the calls that run side by side
ThreadChatArgs ==
    {[NoArgs EXCEPT !.message = <<W("What is gravity?")>>, !.context = c] :
        c \in {PyNone, PyList(<<Turn("m1", PyStr(<<W("r1")>>))>>)}}
ThreadQuizArgs ==
    {[NoArgs EXCEPT !.topic = "Photosynthesis", !.difficulty = "beginner",
                    !.num_questions = 3]}
ThreadDocArgs == {[NoArgs EXCEPT !.topic = t] : t \in Topics}
ThreadProbeReplies == {ConnErrReply(<<W("Connection refused")>>), RawReply(OK, <<W("tags")>>)}
ThreadGenReplies(o) ==
    IF o = "chat" THEN {TimeoutReply} \cup {TextReply(t) : t \in ChatTexts}
    ELSE IF o = "quiz"
    THEN {TimeoutReply, TextReply(RenderJson(PyList(<<Good1, Good2>>))),
          TextReply(<<W("I cannot help with that.")>>)}
    ELSE {TimeoutReply, TextReply(<<W("text one")>>)}

(***************************************************************************)
(* The calls                                                               *)
(***************************************************************************)
Init ==
    /\ pc = "Idle"
    /\ op = "none"
    /\ args = NoArgs
    /\ probe = TimeoutReply
    /\ requests = <<>>
    /\ replies = <<>>
    /\ sections = PyDict(<<>>)
    /\ result = PyNone
    /\ raised = FALSE
    /\ chat_messages = <<>>
    /\ chat_sessions = NewChatSessions
    /\ clock = 0
    /\ folded = <<>>
    /\ threads = [t \in Threads |-> IdleThread]
    /\ client = OllamaClient
    /\ session = EmptySession
    /\ flashed = <<>>
    /\ http_request = NoRequest
    /\ http_response = NoResponse
    /\ body_ran = "none"
    /\ users = <<>>
    /\ db_schema = NoSchema
    /\ script_run = NoScript
    /\ quiz_sessions = <<>>
    /\ quiz_questions = <<>>

\* generate_chat_response is entered: its first statement probes the server
CallChat ==
    /\ pc = "Idle"
    /\ \E m \in Messages, c \in Contexts :
        args' = [NoArgs EXCEPT !.message = m, !.context = c]
    /\ op' = "chat"
    /\ pc' = "Probing"
    /\ requests' = <<GetRequest("/api/tags")>>
    /\ UNCHANGED <<probe, replies, sections, result, raised>>
    /\ UNCHANGED notcallvars

\* the probe is answered: generate_chat_response up to its POST
ChatProbed ==
    /\ pc = "Probing" /\ op = "chat"
    /\ \E r \in ProbeReplies :
        /\ probe' = r
        /\ IF ~is_available(r)
           THEN /\ result' = UNAVAILABLE_MSG
                /\ pc' = "Done"
                /\ UNCHANGED requests
           ELSE /\ requests' = Append(requests,
                        PostGenerate(ChatPrompt(args.message, args.context),
                                     CHAT_SYSTEM_PROMPT))
                /\ pc' = "Generating"
                /\ UNCHANGED result
    /\ UNCHANGED <<op, args, replies, sections, raised>>
    /\ UNCHANGED notcallvars

\* a POST that timed out is issued again
ChatGenerated_retry ==
    /\ pc = "Generating" /\ op = "chat"
    /\ \E r \in GenReplies("chat") :
        LET out == generate_response(r)
        IN  /\ replies' = Append(replies, r)
            /\ raised' = (out.exc /= "none")
            /\ IF r.kind = "timeout" /\ Len(replies) < 2
               THEN /\ requests' = Append(requests, requests[Len(requests)])
                    /\ UNCHANGED <<pc, result>>
               ELSE /\ result' = (IF out.exc = "none" THEN out.val ELSE PyNone)
                    /\ pc' = "Done"
                    /\ UNCHANGED requests
    /\ UNCHANGED <<op, args, probe, sections>>
    /\ UNCHANGED notcallvars

\* a failed POST is reported as the server being unavailable
ChatGenerated_masks_errors ==
    /\ pc = "Generating" /\ op = "chat"
    /\ \E r \in GenReplies("chat") :
        LET out == generate_response(r)
        IN  /\ replies' = Append(replies, r)
            /\ raised' = (out.exc /= "none")
            /\ result' = IF r.kind = "http" /\ r.status = OK THEN out.val
                          ELSE UNAVAILABLE_MSG
    /\ pc' = "Done"
    /\ UNCHANGED <<op, args, probe, requests, sections>>
    /\ UNCHANGED notcallvars

\* the POST is answered: generate_chat_response returns what generate_response returns
ChatGenerated ==
    /\ pc = "Generating" /\ op = "chat"
    /\ \E r \in GenReplies("chat") :
        LET out == generate_response(r)
        IN  /\ replies' = Append(replies, r)
            /\ raised' = (out.exc /= "none")
            /\ result' = IF out.exc = "none" THEN out.val ELSE PyNone
    /\ pc' = "Done"
    /\ UNCHANGED <<op, args, probe, requests, sections>>
    /\ UNCHANGED notcallvars

\* generate_quiz_questions is entered: its first statement probes the server
CallQuiz ==
    /\ pc = "Idle"
    /\ \E t \in Topics, d \in Difficulties, n \in Counts :
        args' = [NoArgs EXCEPT !.topic = t, !.difficulty = d, !.num_questions = n]
    /\ op' = "quiz"
    /\ pc' = "Probing"
    /\ requests' = <<GetRequest("/api/tags")>>
    /\ UNCHANGED <<probe, replies, sections, result, raised>>
    /\ UNCHANGED notcallvars

\* the probe is answered: generate_quiz_questions up to its POST
QuizProbed ==
    /\ pc = "Probing" /\ op = "quiz"
    /\ \E r \in ProbeReplies :
        /\ probe' = r
        /\ IF ~is_available(r)
           THEN /\ result' = QuizUnavailable(args.topic)
                /\ pc' = "Done"
                /\ UNCHANGED requests
           ELSE /\ requests' = Append(requests,
                        PostGenerate(QuizPrompt(args.topic, args.difficulty, args.num_questions),
                                     QuizSystemPrompt(args.topic, args.difficulty,
                                                      args.num_questions)))
                /\ pc' = "Generating"
                /\ UNCHANGED result
    /\ UNCHANGED <<op, args, replies, sections, raised>>
    /\ UNCHANGED notcallvars

\* the POST is answered: the rest of generate_quiz_questions
QuizGenerated ==
    /\ pc = "Generating" /\ op = "quiz"
    /\ \E r \in GenReplies("quiz") :
        LET out == generate_response(r)
        IN  /\ replies' = Append(replies, r)
            /\ raised' = (out.exc /= "none")
            /\ result' = IF out.exc = "none" THEN ExtractQuiz(out.val, args.topic)
                         ELSE PyNone
    /\ pc' = "Done"
    /\ UNCHANGED <<op, args, probe, requests, sections>>
    /\ UNCHANGED notcallvars

\* generate_pdf_content is entered: its first statement probes the server
CallDoc ==
    /\ pc = "Idle"
    /\ \E t \in Topics : args' = [NoArgs EXCEPT !.topic = t]
    /\ op' = "doc"
    /\ pc' = "Probing"
    /\ requests' = <<GetRequest("/api/tags")>>
    /\ UNCHANGED <<probe, replies, sections, result, raised>>
    /\ UNCHANGED notcallvars

\* the probe is answered: generate_pdf_content up to the POST of the first section
DocProbed ==
    /\ pc = "Probing" /\ op = "doc"
    /\ \E r \in ProbeReplies :
        /\ probe' = r
        /\ IF ~is_available(r)
           THEN /\ result' = DocUnavailable(args.topic)
                /\ pc' = "Done"
                /\ UNCHANGED requests
           ELSE /\ requests' = Append(requests,
                        PostGenerate(SectionPrompt(SectionKeys[1], args.topic),
                                     DOC_SYSTEM_PROMPT))
                /\ pc' = "Generating"
                /\ UNCHANGED result
    /\ UNCHANGED <<op, args, replies, sections, raised>>
    /\ UNCHANGED notcallvars

\* the loop is left at the first section whose POST fails
DocGenerated_stop_on_failure ==
    /\ pc = "Generating" /\ op = "doc"
    /\ \E r \in GenReplies("doc") :
        LET idx == Len(replies) + 1
            stored == StoreSection(sections, SectionKeys[idx], generate_response(r))
        IN  /\ replies' = Append(replies, r)
            /\ sections' = stored
            /\ IF idx < Len(SectionKeys) /\ r.kind = "http" /\ r.status = OK
               THEN /\ requests' = Append(requests,
                            PostGenerate(SectionPrompt(SectionKeys[idx + 1], args.topic),
                                         DOC_SYSTEM_PROMPT))
                    /\ UNCHANGED <<pc, result>>
               ELSE /\ result' = stored
                    /\ pc' = "Done"
                    /\ UNCHANGED requests
    /\ UNCHANGED <<op, args, probe, raised>>
    /\ UNCHANGED notcallvars

\* the POST of a section is answered: the section is stored, and the loop
\* goes on to the POST of the next section or the function returns
DocGenerated ==
    /\ pc = "Generating" /\ op = "doc"
    /\ \E r \in GenReplies("doc") :
        LET idx == Len(replies) + 1
            stored == StoreSection(sections, SectionKeys[idx], generate_response(r))
        IN  /\ replies' = Append(replies, r)
            /\ sections' = stored
            /\ IF idx < Len(SectionKeys)
               THEN /\ requests' = Append(requests,
                            PostGenerate(SectionPrompt(SectionKeys[idx + 1], args.topic),
                                         DOC_SYSTEM_PROMPT))
                    /\ UNCHANGED <<pc, result>>
               ELSE /\ result' = stored
                    /\ pc' = "Done"
                    /\ UNCHANGED requests
    /\ UNCHANGED <<op, args, probe, raised>>
    /\ UNCHANGED notcallvars

\* is_available is called on its own (page handlers, start-up)
CallIsAvailable ==
    /\ pc = "Idle"
    /\ op' = "probe"
    /\ pc' = "Probing"
    /\ requests' = <<GetRequest("/api/tags")>>
    /\ UNCHANGED <<args, probe, replies, sections, result, raised>>
    /\ UNCHANGED notcallvars

\* its GET is answered: is_available returns
IsAvailableAnswered ==
    /\ pc = "Probing" /\ op = "probe"
    /\ \E r \in ProbeReplies :
        /\ probe' = r
        /\ result' = PyBool(is_available(r))
    /\ pc' = "Done"
    /\ UNCHANGED <<op, args, requests, replies, sections, raised>>
    /\ UNCHANGED notcallvars

\* list_models is called
CallListModels ==
    /\ pc = "Idle"
    /\ op' = "models"
    /\ pc' = "Listing"
    /\ requests' = <<GetRequest("/api/tags")>>
    /\ UNCHANGED <<args, probe, replies, sections, result, raised>>
    /\ UNCHANGED notcallvars

\* its GET is answered: list_models returns
ListModelsAnswered ==
    /\ pc = "Listing" /\ op = "models"
    /\ \E r \in ModelsReplies :
        /\ replies' = <<r>>
        /\ result' = list_models(r)
    /\ pc' = "Done"
    /\ UNCHANGED <<op, args, probe, requests, sections, raised>>
    /\ UNCHANGED notcallvars

\* generate_response is called on its own: its POST is issued
CallGenerate ==
    /\ pc = "Idle"
    /\ \E m \in Messages, sp \in SystemPrompts :
        /\ args' = [NoArgs EXCEPT !.message = m, !.system_prompt = sp]
        /\ requests' = <<PostGenerate(m, sp)>>
    /\ op' = "generate"
    /\ pc' = "Generating"
    /\ UNCHANGED <<probe, replies, sections, result, raised>>
    /\ UNCHANGED notcallvars

\* its POST is answered: generate_response returns
GenerateAnswered ==
    /\ pc = "Generating" /\ op = "generate"
    /\ \E r \in GenReplies("generate") :
        LET out == generate_response(r)
        IN  /\ replies' = <<r>>
            /\ raised' = (out.exc /= "none")
            /\ result' = IF out.exc = "none" THEN out.val ELSE PyNone
    /\ pc' = "Done"
    /\ UNCHANGED <<op, args, probe, requests, sections>>
    /\ UNCHANGED notcallvars

\* the caller takes the result
Return ==
    /\ pc = "Done"
    /\ pc' = "Idle"
    /\ op' = "none"
    /\ args' = NoArgs
    /\ probe' = TimeoutReply
    /\ requests' = <<>>
    /\ replies' = <<>>
    /\ sections' = PyDict(<<>>)
    /\ result' = PyNone
    /\ raised' = FALSE
    /\ UNCHANGED notcallvars

Next ==
    \/ CallChat
    \/ ChatProbed
    \/ ChatGenerated
    \/ CallQuiz
    \/ QuizProbed
    \/ QuizGenerated
    \/ CallDoc
    \/ DocProbed
    \/ DocGenerated
    \/ CallIsAvailable
    \/ IsAvailableAnswered
    \/ CallListModels
    \/ ListModelsAnswered
    \/ CallGenerate
    \/ GenerateAnswered
    \/ Return

Spec == Init /\ [][Next]_vars

(***************************************************************************)
(* Vocabulary of the properties.                                           *)
(***************************************************************************)
Labels == {"A", "B", "C", "D"}

\* the probe did not end with status 200
ProbeFailed == probe.kind \in {"timeout", "connerr"} \/ probe.status /= 200

Finished(o) == pc = "Done" /\ op = o

\* a dict with exactly 4 options and a label among A..D that indexes one of them
UsableItem(x) ==
    /\ x.t = "dict"
    /\ HasKey(x, "options") /\ HasKey(x, "correct")
    /\ DictGet(x, "options", PyNone).t = "list"
    /\ Len(DictGet(x, "options", PyNone).v) = 4
    /\ \E l \in Labels : DictGet(x, "correct", PyNone) = PyStr(<<W(l)>>)

\* a usable item that also has a non-empty question
ValidItem(x) ==
    /\ UsableItem(x)
    /\ HasKey(x, "question")
    /\ DictGet(x, "question", PyNone).t = "str"
    /\ DictGet(x, "question", PyNone).v /= <<>>

\* the one generic item about the topic: its question names the topic, its
\* 4 options are the fixed ones, with label A and the canned explanation
IsGenericItemAbout(x, topic) ==
    /\ UsableItem(x)
    /\ Keys(x) = <<"question", "options", "correct", "explanation">>
    /\ DictGet(x, "question", PyNone) =
            PyStr(<<W("What is an important concept to understand about "),
                    W(topic), W("?")>>)
    /\ DictGet(x, "options", PyNone).v =
            <<PyStr(<<W("It requires foundational knowledge")>>),
              PyStr(<<W("It can be learned quickly")>>),
              PyStr(<<W("It has no practical applications")>>),
              PyStr(<<W("It is only theoretical")>>)>>
    /\ DictGet(x, "correct", PyNone) = PyStr(<<W("A")>>)
    /\ DictGet(x, "explanation", PyNone) =
            PyStr(<<W("Understanding foundational concepts is crucial for mastering any topic.")>>)

IsOneItemFallback(r, topic) ==
    /\ r.t = "list"
    /\ Len(r.v) = 1
    /\ UsableItem(r.v[1])
    /\ \E i \in 1..Len(DictGet(r.v[1], "question", PyStr(<<>>)).v) :
            DictGet(r.v[1], "question", PyStr(<<>>)).v[i] = W(topic)
    /\ DictGet(r.v[1], "correct", PyNone) = PyStr(<<W("A")>>)

(***************************************************************************)
(* C1: whatever the server does, generate_quiz_questions returns a         *)
(* non-empty list in which every item has exactly 4 options and a correct  *)
(* label among A, B, C, D.                                                 *)
(* The code returns the parsed array unchecked: the statement is violated. *)
(***************************************************************************)
C1_QuizAlwaysUsable ==
    Finished("quiz") =>
        /\ ~raised
        /\ result.t = "list"
        /\ Len(result.v) >= 1
        /\ \A i \in 1..Len(result.v) : UsableItem(result.v[i])

(***************************************************************************)
(* C2: no service function raises, and each returns a renderable value: a  *)
(* string for chat, a list of quiz items for quiz, a mapping of section    *)
(* key to string for document.                                             *)
(* With a 200 reply whose response field is null the chat result and the   *)
(* section texts are None: the statement is violated.                      *)
(***************************************************************************)
C2_NeverRaisesRenderable ==
    pc = "Done" =>
        /\ ~raised
        /\ op = "chat" => result.t = "str"
        /\ op = "quiz" =>
                /\ result.t = "list"
                /\ \A i \in 1..Len(result.v) : result.v[i].t = "dict"
        /\ op = "doc" =>
                /\ result.t = "dict"
                /\ \A i \in 1..Len(result.v) : result.v[i].val.t = "str"

(***************************************************************************)
(* C3: generate_pdf_content returns a mapping whose keys are exactly       *)
(* introduction, key_concepts, examples, practice_questions, summary, each *)
(* once, in that order, whatever the outcome of each section's call and    *)
(* also when the server is unavailable.                                    *)
(***************************************************************************)
C3_DocFiveKeysInOrder ==
    Finished("doc") =>
        /\ result.t = "dict"
        /\ Keys(result) =
             <<"introduction", "key_concepts", "examples", "practice_questions", "summary">>

\* a document built with the server available, one section timed out,
\* another answered 500 and another answered with text
C3_Witness ==
    /\ Finished("doc")
    /\ ~ProbeFailed
    /\ \E i, j, k \in 1..Len(replies) :
        /\ replies[i].kind = "timeout"
        /\ replies[j].kind = "http" /\ replies[j].status = 500
        /\ replies[k].kind = "http" /\ replies[k].status = 200

(***************************************************************************)
(* C4: when the probe fails, generate_chat_response returns the fixed      *)
(* unavailability string, for every message and context, and the probe is  *)
(* the only request of the call: no POST /api/generate is issued.          *)
(***************************************************************************)
C4_ChatUnavailableShortCircuit ==
    (op = "chat" /\ pc /= "Probing" /\ ProbeFailed) =>
        /\ pc = "Done"
        /\ result = PyStr(<<W("Ollama is not available. Please make sure Ollama is running on your system.")>>)
        /\ Len(requests) = 1
        /\ requests[1].method = "GET" /\ requests[1].path = "/api/tags"
        /\ \A i \in 1..Len(requests) : requests[i].method /= "POST"

\* answerChat("What is gravity?", []) with the probe answered 500
C4_Witness ==
    /\ Finished("chat")
    /\ probe.kind = "http" /\ probe.status = 500
    /\ args.message = <<W("What is gravity?")>>
    /\ args.context = PyList(<<>>)

(***************************************************************************)
(* C5: when the probe succeeds and POST /api/generate answers with a       *)
(* non-200 status, whatever the body, generate_quiz_questions returns the  *)
(* one-item fallback: one item whose question contains the topic and whose *)
(* correct label is "A".                                                   *)
(* The error text "Error: <status> - <body>" goes through the JSON         *)
(* extraction like a text of the model: with a body that holds a JSON      *)
(* array the array is returned, so the statement is violated.              *)
(***************************************************************************)
C5_QuizServerErrorFallback ==
    (Finished("quiz") /\ ~ProbeFailed
        /\ replies[1].kind = "http" /\ replies[1].status /= 200) =>
        IsOneItemFallback(result, args.topic)

(***************************************************************************)
(* C6: with the server available, a section of generate_pdf_content whose  *)
(* call timed out holds "Content for <section> could not be generated at   *)
(* this time." in the returned mapping.                                    *)
(* generate_response catches the timeout and returns a text, so the except *)
(* branch of the loop never runs and the section holds the timeout text:   *)
(* the statement is violated.                                              *)
(***************************************************************************)
C6_FailedSectionPlaceholder ==
    (Finished("doc") /\ ~ProbeFailed) =>
        \A i \in 1..Len(replies) :
            replies[i].kind = "timeout" =>
                DictGet(result, SectionKeys[i], PyNone) =
                    PyStr(<<W("Content for "), W(SectionKeys[i]),
                            W(" could not be generated at this time.")>>)

(***************************************************************************)
(* C7: the chat prompt holds exactly the last min(n, 5) of the n prior     *)
(* turns, each once, oldest first, all before the new user message; with   *)
(* n = 0 it holds no prior turn.                                           *)
(***************************************************************************)
\* the positions of the prompt at which a rendered prior turn starts
TurnStarts(prompt) ==
    {i \in 1..Len(prompt) :
        /\ prompt[i] = W("User: ")
        /\ i + 2 <= Len(prompt)
        /\ prompt[i + 2] = W("\nAssistant: ")}

\* the j-th of them, from the left
NthStart(prompt, j) ==
    CHOOSE i \in TurnStarts(prompt) :
        Cardinality({q \in TurnStarts(prompt) : q <= i}) = j

PriorTurns == IF args.context.t = "list" THEN args.context.v ELSE <<>>

C7_ContextIsLastFive ==
    (op = "chat" /\ Len(requests) >= 2) =>
        LET prompt == requests[2].prompt
            n == Len(PriorTurns)
            k == IF n <= 5 THEN n ELSE 5
            last == Len(prompt)
        IN  /\ Cardinality(TurnStarts(prompt)) = k
            /\ \A j \in 1..k :
                LET turn == PriorTurns[n - k + j]
                    at == NthStart(prompt, j)
                IN  /\ <<prompt[at + 1]>> = DictGet(turn, "message", PyNone).v
                    /\ prompt[at + 3] =
                         (IF DictGet(turn, "response", PyNone).t = "none"
                          THEN W("None")
                          ELSE DictGet(turn, "response", PyNone).v[1])
                    /\ at + 3 < last - 2
            /\ last >= 3
            /\ SubSeq(prompt, last - 2, last) =
                 <<W("User: ")>> \o args.message \o <<W("\nAssistant:")>>

\* a chat call with more than 5 prior turns whose POST has been issued
C7_Witness ==
    /\ op = "chat"
    /\ Len(requests) >= 2
    /\ Len(PriorTurns) > 5
    /\ PriorTurns[1] /= PriorTurns[Len(PriorTurns)]

(***************************************************************************)
(* C8 (as claimed): when the text of the model is a JSON array of valid    *)
(* quiz objects, optionally surrounded by prose, the quiz returned is      *)
(* exactly that array.                                                     *)
(* Prose with a '[' before the array, or a ']' after it, moves the ends of *)
(* the extracted substring: the statement is violated.                     *)
(***************************************************************************)
IsModelText(r) ==
    /\ r.kind = "http" /\ r.status = 200 /\ r.json = "valid"
    /\ r.body.t = "dict"
    /\ DictGet(r.body, "response", PyNone).t = "str"

ModelTextOf(r) == DictGet(r.body, "response", PyNone).v

ValidArrays == {a \in ModelArrays : \A i \in 1..Len(a.v) : ValidItem(a.v[i])}

HasTok(toks, c) == \E i \in 1..Len(toks) : toks[i].c = c

QuizFromModelText == Finished("quiz") /\ ~ProbeFailed /\ IsModelText(replies[1])

\* a valid array in prose: the text, the array, and whether the prose is
\* plain (no '[' before the array, no ']' after it)
InProse ==
    {[text |-> pre \o RenderJson(a) \o post, array |-> a,
      plain |-> ~HasTok(pre, "[") /\ ~HasTok(post, "]")] :
        pre \in ProseBefore, a \in ValidArrays, post \in ProseAfter}

C8_RoundTripAnyProse ==
    QuizFromModelText =>
        \A x \in InProse : ModelTextOf(replies[1]) = x.text => result = x.array

(***************************************************************************)
(* C8 (amended): when the text of the model is a JSON array of valid quiz  *)
(* objects, optionally surrounded by prose that has no '[' before the      *)
(* array and no ']' after it, the quiz returned is exactly that array:     *)
(* same items, same order, same field values.                              *)
(***************************************************************************)
C8_RoundTripPlainProse ==
    QuizFromModelText =>
        \A x \in InProse :
            (ModelTextOf(replies[1]) = x.text /\ x.plain) => result = x.array

\* "Sure! Here you go: [<Q1, correct B>] Hope that helps." returned as one item
C8_Witness ==
    /\ QuizFromModelText
    /\ ModelTextOf(replies[1]) =
         <<W("Sure! Here you go: ")>> \o RenderJson(PyList(<<Good1>>))
             \o <<W(" Hope that helps.")>>
    /\ Len(result.v) = 1
    /\ DictGet(result.v[1], "correct", PyNone) = PyStr(<<W("B")>>)

(***************************************************************************)
(* C9: if the JSON array of the model holds at least one object without a  *)
(* non-empty question, without exactly 4 options or with a correct label   *)
(* outside A..D, none of its objects is returned and the result is the     *)
(* one-item fallback.                                                      *)
(* The code validates nothing and returns the array as parsed: the         *)
(* statement is violated.                                                  *)
(***************************************************************************)
InvalidArrayTexts ==
    {RenderJson(a) : a \in {b \in ModelArrays : \E i \in 1..Len(b.v) : ~ValidItem(b.v[i])}}

C9_AllOrNothingValidation ==
    (QuizFromModelText /\ ModelTextOf(replies[1]) \in InvalidArrayTexts) =>
        /\ IsOneItemFallback(result, args.topic)
        /\ IsGenericItemAbout(result.v[1], args.topic)

(***************************************************************************)
(* C10: when the text of the model has no '[' ... ']' pair, or the         *)
(* substring from its first '[' to its last ']' is not JSON, the quiz      *)
(* returned is one generic item about the topic: the topic in its          *)
(* question, 4 options, label "A", the canned explanation; nothing else of *)
(* the text shows in it.                                                   *)
(***************************************************************************)
NoBracketPair(toks) ==
    ~\E i, j \in 1..Len(toks) : i < j /\ toks[i].c = "[" /\ toks[j].c = "]"

\* from the first '[' to the last ']'
Bracketed(toks) ==
    SubSeq(toks,
           CHOOSE i \in 1..Len(toks) :
                toks[i].c = "[" /\ \A q \in 1..(i - 1) : toks[q].c /= "[",
           CHOOSE j \in 1..Len(toks) :
                toks[j].c = "]" /\ \A q \in (j + 1)..Len(toks) : toks[q].c /= "]")

Unextractable(toks) ==
    \/ NoBracketPair(toks)
    \/ ~ParseValue(Bracketed(toks), 1).ok
    \/ ParseValue(Bracketed(toks), 1).next /= Len(Bracketed(toks)) + 1

C10_UnparsableGivesGenericItem ==
    (QuizFromModelText /\ Unextractable(ModelTextOf(replies[1]))) =>
        /\ result.t = "list"
        /\ Len(result.v) = 1
        /\ IsGenericItemAbout(result.v[1], args.topic)

\* a text that has a bracket pair whose content is not JSON
C10_Witness ==
    /\ QuizFromModelText
    /\ args.topic = "Recursion"
    /\ ~NoBracketPair(ModelTextOf(replies[1]))
    /\ Unextractable(ModelTextOf(replies[1]))

(***************************************************************************)
(* C11 (as claimed): when the probe fails, generate_quiz_questions returns *)
(* at once, with no POST /api/generate, a one-item list whose item         *)
(* mentions the topic, has 4 options and label "A", and has the same set   *)
(* of fields as the item returned when the extraction of JSON fails.       *)
(* The item of the unavailable server has no explanation field: the        *)
(* statement is violated.                                                  *)
(***************************************************************************)
NoPostIssued ==
    /\ Len(requests) = 1
    /\ requests[1].method = "GET" /\ requests[1].path = "/api/tags"

FieldSet(x) == {x.v[i].k : i \in 1..Len(x.v)}

OneLineAbout(x, topic) ==
    /\ x.t = "str"
    /\ \E i \in 1..Len(x.v) : x.v[i] = W(topic)
    /\ \A i \in 1..Len(x.v) : x.v[i].c = "w" /\ x.v[i].s \notin {"\n", "\n\n"}

C12_UnavailableDocPlaceholders ==
    (op = "doc" /\ pc /= "Probing" /\ ProbeFailed) =>
        /\ pc = "Done"
        /\ NoPostIssued
        /\ result.t = "dict"
        /\ Len(result.v) = 5
        /\ \A key \in {"introduction", "key_concepts", "examples",
                       "practice_questions", "summary"} :
                /\ Cardinality({i \in 1..Len(result.v) : result.v[i].k = key}) = 1
                /\ OneLineAbout(DictGet(result, key, PyNone), args.topic)

\* a document about Recursion asked while the probe times out
C12_Witness ==
    /\ Finished("doc")
    /\ probe.kind = "timeout"
    /\ args.topic = "Recursion"
    /\ Len(result.v) = 5

(***************************************************************************)
(* Every request of the client carries a timeout (5 s for the probe, 60 s  *)
(* for a generation) and the service functions run to their return: a      *)
(* request that was issued is answered, by the server or by the timeout.   *)
(***************************************************************************)
FairSpec ==
    /\ Spec
    /\ WF_vars(ChatProbed) /\ WF_vars(ChatGenerated)
    /\ WF_vars(QuizProbed) /\ WF_vars(QuizGenerated)
    /\ WF_vars(DocProbed) /\ WF_vars(DocGenerated)
    /\ WF_vars(IsAvailableAnswered) /\ WF_vars(GenerateAnswered)

(***************************************************************************)
(* C13: a call of a service function goes Idle -> Probing -> Unavailable   *)
(* (returns), or Available -> Generating -> returns: the probe comes       *)
(* before every POST /api/generate, no step goes back and no request is    *)
(* issued again (a document call goes on to the POST of its next section,  *)
(* never to one already issued), every call reaches its return, and the    *)
(* returned value is set once, by the step that ends the call.             *)
(***************************************************************************)
Orchestrated(o) == o \in {"chat", "quiz", "doc"}

ProbeThenPosts ==
    (Orchestrated(op) /\ pc /= "Idle") =>
        /\ Len(requests) >= 1
        /\ requests[1].method = "GET" /\ requests[1].path = "/api/tags"
        /\ \A i \in 2..Len(requests) :
                requests[i].method = "POST" /\ requests[i].path = "/api/generate"
        /\ \A i, j \in 1..Len(requests) : i < j => requests[i] /= requests[j]
        /\ pc = "Probing" => Len(requests) = 1 /\ replies = <<>>
        /\ pc = "Generating" => ~ProbeFailed /\ Len(requests) = Len(replies) + 2
        /\ pc = "Done" => Len(requests) = (IF ProbeFailed THEN 1 ELSE Len(replies) + 1)

StepForward ==
    (Orchestrated(op) \/ Orchestrated(op')) =>
        /\ \/ pc = "Idle" /\ pc' = "Probing"
           \/ pc = "Probing" /\ pc' = "Generating"
           \/ pc = "Probing" /\ pc' = "Done"
           \/ pc = "Generating" /\ pc' = "Done"
           \/ /\ pc = "Generating" /\ pc' = "Generating" /\ op = "doc"
              /\ Len(replies') = Len(replies) + 1
              /\ Len(requests') = Len(requests) + 1
           \/ pc = "Done" /\ pc' = "Idle"
        /\ result' /= result => (pc /= "Done" /\ pc' = "Done") \/ pc' = "Idle"
        /\ (pc /= "Done" /\ pc' = "Done") => (op' = op /\ args' = args)

C13_CallStateMachine ==
    /\ []ProbeThenPosts
    /\ [][StepForward]_vars
    /\ (Orchestrated(op) /\ pc = "Probing") ~> (pc = "Done")
    /\ (Orchestrated(op) /\ pc = "Generating") ~> (pc = "Done")

\* a document call that has returned after its probe and its five POSTs,
\* one of them timed out
C13_Witness ==
    /\ Finished("doc")
    /\ Len(requests) = 6
    /\ \E i \in 1..Len(replies) : replies[i].kind = "timeout"

(***************************************************************************)
(* C14: with the server available a chat call issues exactly one           *)
(* generation request, a quiz call exactly one, and a document call        *)
(* exactly five, one per section key in order, whatever each reply is.     *)
(***************************************************************************)
Posts == {i \in 1..Len(requests) : requests[i].method = "POST"}

C14_FixedNumberOfPosts ==
    /\ (Orchestrated(op) /\ pc = "Done" /\ ~ProbeFailed) =>
          /\ Cardinality(Posts) = (IF op = "doc" THEN Len(SectionKeys) ELSE 1)
          /\ Len(replies) = Cardinality(Posts)
          /\ \A i \in Posts : requests[i].path = "/api/generate"
    /\ (Finished("doc") /\ ~ProbeFailed) =>
          \A i \in 1..Len(SectionKeys) :
              requests[i + 1].prompt = SectionPrompt(SectionKeys[i], args.topic)
    /\ (Orchestrated(op) /\ pc = "Generating") =>
          Cardinality(Posts) <= (IF op = "doc" THEN Len(SectionKeys) ELSE 1)

C14_Witness ==
    /\ Finished("doc") /\ ~ProbeFailed
    /\ Cardinality(Posts) = 5
    /\ \A i \in 1..Len(replies) : replies[i].kind = "connerr"

(***************************************************************************)
(* C15: is_available never raises; it returns True exactly when the GET of *)
(* /api/tags completes with status 200, and False on a network error, a    *)
(* timeout or any other status.                                            *)
(***************************************************************************)
C15_IsAvailableIffStatus200 ==
    Finished("probe") =>
        /\ ~raised
        /\ result \in {PyBool(TRUE), PyBool(FALSE)}
        /\ (result = PyBool(TRUE)) <=> (probe.kind = "http" /\ probe.status = 200)
        /\ requests = <<GetRequest("/api/tags")>>

C15_Witness ==
    /\ Finished("probe")
    /\ probe.kind = "http" /\ probe.status = 404
    /\ result = PyBool(FALSE)

(***************************************************************************)
(* C16: list_models never raises and always returns a sequence: the array  *)
(* under the models key on a 200 reply with a well-formed body, and the    *)
(* empty sequence on any failure (network error, non-200 status, body not  *)
(* JSON, body without a usable models array).                              *)
(***************************************************************************)
HasModelsArray(r) ==
    /\ r.kind = "http" /\ r.status = 200 /\ r.json = "valid"
    /\ r.body.t = "dict"
    /\ DictGet(r.body, "models", PyNone).t = "list"

C16_ListModelsAlwaysSequence ==
    Finished("models") =>
        /\ ~raised
        /\ result.t = "list"
        /\ HasModelsArray(replies[1]) => result = DictGet(replies[1].body, "models", PyNone)
        /\ ~HasModelsArray(replies[1]) => result = PyList(<<>>)

(***************************************************************************)
(* C17: generate_response maps each outcome of its single POST to one      *)
(* result and never raises.  As stated: every reply with status 200 yields *)
(* the response field of the JSON body.                                    *)
(***************************************************************************)
GenerateDone == Finished("generate") /\ Len(replies) = 1

C17_Status200YieldsResponseField ==
    (GenerateDone /\ replies[1].kind = "http" /\ replies[1].status = 200) =>
        /\ replies[1].json = "valid"
        /\ replies[1].body.t = "dict"
        /\ HasKey(replies[1].body, "response")
        /\ result = DictGet(replies[1].body, "response", PyNone)

(***************************************************************************)
(* C17, amended: a 200 reply whose body is a JSON object yields its        *)
(* response field, or the default text when the field is missing; a 200    *)
(* reply whose body is not a JSON object yields the "Error connecting to   *)
(* Ollama: " text with the cause, like every transport failure but the     *)
(* timeout; a timeout yields the timeout text; any other status yields     *)
(* "Error: <status> - <body>".  One POST is sent, with stream false and    *)
(* with the system field exactly when a non-empty system prompt is given.  *)
(***************************************************************************)
TIMEOUT_TEXT ==
    PyStr(<<W("Request timed out. The model might be processing a complex query.")>>)

NO_RESPONSE_TEXT == PyStr(<<W("Sorry, I could not generate a response.")>>)

ConnectionErrorText(x) ==
    /\ x.t = "str"
    /\ Len(x.v) > 1
    /\ x.v[1] = W("Error connecting to Ollama: ")

C17_GenerateOutcomeMap ==
    GenerateDone =>
        LET r == replies[1]
        IN  /\ ~raised
            /\ r.kind = "timeout" => result = TIMEOUT_TEXT
            /\ r.kind = "connerr" =>
                  result = PyStr(<<W("Error connecting to Ollama: ")>> \o r.text)
            /\ (r.kind = "http" /\ r.status /= 200) =>
                  result = PyStr(<<W("Error: "), W(ToString(r.status)), W(" - ")>> \o r.text)
            /\ (r.kind = "http" /\ r.status = 200) =>
                  IF r.json = "valid" /\ r.body.t = "dict"
                  THEN IF HasKey(r.body, "response")
                       THEN result = DictGet(r.body, "response", PyNone)
                       ELSE result = NO_RESPONSE_TEXT
                  ELSE ConnectionErrorText(result)
            /\ requests = <<PostGenerate(args.message, args.system_prompt)>>
            /\ requests[1].method = "POST" /\ requests[1].path = "/api/generate"
            /\ requests[1].stream = FALSE
            /\ requests[1].prompt = args.message
            /\ requests[1].hasSystem <=>
                  (args.system_prompt.t = "str" /\ args.system_prompt.v /= <<>>)
            /\ requests[1].hasSystem => requests[1].system = args.system_prompt.v

C17_Witness ==
    /\ GenerateDone
    /\ replies[1].kind = "timeout"
    /\ args.system_prompt = PyNone
    /\ ~requests[1].hasSystem
    /\ result = TIMEOUT_TEXT

(***************************************************************************)
(* C18: in a document call with the server available all five POSTs are    *)
(* made whichever of them fail, and every section whose POST brought a     *)
(* text of the model holds exactly that text.                              *)
(***************************************************************************)
C18_SectionsIndependent ==
    (Finished("doc") /\ ~ProbeFailed) =>
        /\ Len(replies) = Len(SectionKeys)
        /\ Len(requests) = Len(SectionKeys) + 1
        /\ \A i \in 1..Len(SectionKeys) :
              IsModelText(replies[i]) =>
                  DictGet(result, SectionKeys[i], PyNone) = PyStr(ModelTextOf(replies[i]))

C18_Witness ==
    /\ Finished("doc") /\ ~ProbeFailed
    /\ Len(replies) = 5
    /\ IsModelText(replies[1]) /\ IsModelText(replies[3])
    /\ replies[2].kind = "timeout" /\ replies[5].kind = "http" /\ replies[5].status = 500
    /\ ModelTextOf(replies[1]) /= ModelTextOf(replies[3])

(***************************************************************************)
(* C19: with the server available generate_chat_response returns what its  *)
(* generate_response call produced, unchanged: the model's text on         *)
(* success, the error text on a timeout, a non-200 status or a transport   *)
(* failure; never the unavailability message, never another text.          *)
(***************************************************************************)
C19_ChatReturnsGenerateVerbatim ==
    (Finished("chat") /\ ~ProbeFailed) =>
        LET r == replies[1]
        IN  /\ Len(replies) = 1
            /\ result = generate_response(r).val
            /\ result /= UNAVAILABLE_MSG
            /\ IsModelText(r) => result = PyStr(ModelTextOf(r))
            /\ r.kind = "timeout" => result = TIMEOUT_TEXT
            /\ r.kind = "connerr" =>
                  result = PyStr(<<W("Error connecting to Ollama: ")>> \o r.text)
            /\ (r.kind = "http" /\ r.status /= 200) =>
                  result = PyStr(<<W("Error: "), W(ToString(r.status)), W(" - ")>> \o r.text)

C19_Witness ==
    /\ Finished("chat") /\ ~ProbeFailed
    /\ replies[1].kind = "http" /\ replies[1].status = 500
    /\ result = PyStr(<<W("Error: "), W("500"), W(" - "), W("internal error")>>)

(***************************************************************************)
(* The database file and the programs that create it: init_db of the       *)
(* application, setup_database.py, reset_database.py, simple_setup.py.     *)
(***************************************************************************)
\* salts drawn by generate_password_hash
Salts == {"salt1", "salt2"}

\* werkzeug's generate_password_hash and check_password_hash
generate_password_hash(password, salt) ==
    [method |-> "pbkdf2:sha256", salt |-> salt, digest |-> <<password, salt>>]
check_password_hash(pwhash, password) == pwhash.digest = <<password, pwhash.salt>>

Text(str) == <<W(str)>>

\* a row of users in the schema with passwords
PasswordUser(id, username, email, password, is_admin, salt) ==
    [id |-> id, username |-> Text(username), email |-> Text(email),
     password_hash |-> generate_password_hash(password, salt), is_admin |-> is_admin]

\* a row of users in the schema with roles
RoleUser(id, username, email, role) ==
    [id |-> id, username |-> username, email |-> email, role |-> role]

HasUsername(rows, username) ==
    \E i \in 1..Len(rows) : rows[i].username = Text(username)

SETUP_SAMPLE_USERS ==
    <<[username |-> "john_doe", email |-> "john@example.com"],
      [username |-> "jane_smith", email |-> "jane@example.com"],
      [username |-> "student1", email |-> "student1@example.com"]>>

RESET_SAMPLE_USERS ==
    SETUP_SAMPLE_USERS \o <<[username |-> "teacher1", email |-> "teacher1@example.com"]>>

SIMPLE_SAMPLE_USERS ==
    <<[username |-> "demo_student", email |-> "student@demo.com", role |-> "student"],
      [username |-> "demo_teacher", email |-> "teacher@demo.com", role |-> "teacher"],
      [username |-> "demo_admin", email |-> "admin@demo.com", role |-> "admin"]>>

\* init_db: every CREATE TABLE IF NOT EXISTS
RunInitDb ==
    /\ db_schema' = IF db_schema = NoSchema THEN AppSchema ELSE db_schema
    /\ UNCHANGED <<script_run, quiz_sessions, quiz_questions>>
    /\ UNCHANGED <<callvars, dbvars, concvars, webvars>>

\* the admin row of setup_database: inserted unless a user admin exists
WithAdmin(rows, salt) ==
    IF HasUsername(rows, "admin") THEN rows
    ELSE Append(rows, PasswordUser(Len(rows) + 1, "admin", "admin@teacherai.com",
                                   "admin123", TRUE, salt))

\* the loop over sample_users of setup_database, from the n-th sample on
RECURSIVE WithSamples(_, _, _)
WithSamples(rows, n, salt) ==
    IF n > Len(SETUP_SAMPLE_USERS) THEN rows
    ELSE LET u == SETUP_SAMPLE_USERS[n]
         IN  WithSamples(IF HasUsername(rows, u.username) THEN rows
                         ELSE Append(rows, PasswordUser(Len(rows) + 1, u.username, u.email,
                                                        "password123", FALSE, salt)),
                         n + 1, salt)

\* the existing table is kept and the admin row is inserted without a look
\* at its columns
RunSetupDatabase_any_columns ==
    /\ \E salt \in Salts :
        LET created == IF db_schema = NoSchema THEN SetupSchema ELSE db_schema
            wanted == WithSamples(WithAdmin(users, salt), 1, salt)
        IN  /\ db_schema' = created
            /\ users' = wanted
            /\ script_run' = [name |-> "setup_database", raised |-> FALSE]
    /\ UNCHANGED <<quiz_sessions, quiz_questions>>
    /\ UNCHANGED <<callvars, dbvars, concvars>>
    /\ UNCHANGED <<session, flashed, http_request, http_response, body_ran>>

\* setup_database.py: CREATE TABLE IF NOT EXISTS, then the admin and the
\* sample users where missing.  An INSERT of a row with password_hash into a
\* users table without that column raises, and nothing is committed.
RunSetupDatabase ==
    /\ \E salt \in Salts :
        LET created == IF db_schema = NoSchema THEN SetupSchema ELSE db_schema
            wanted == WithSamples(WithAdmin(users, salt), 1, salt)
            raises == wanted /= users /\ created.users /= "password"
        IN  /\ db_schema' = created
            /\ users' = IF raises THEN users ELSE wanted
            /\ script_run' = [name |-> "setup_database", raised |-> raises]
    /\ UNCHANGED <<quiz_sessions, quiz_questions>>
    /\ UNCHANGED <<callvars, dbvars, concvars>>
    /\ UNCHANGED <<session, flashed, http_request, http_response, body_ran>>

\* reset_database.py: the file is removed, the tables are created, the admin
\* and four sample users are inserted
RunResetDatabase ==
    /\ \E salt \in Salts :
        users' = <<PasswordUser(1, "admin", "admin@teacherai.com", "admin123", TRUE, salt)>>
                    \o [i \in 1..Len(RESET_SAMPLE_USERS) |->
                           PasswordUser(i + 1, RESET_SAMPLE_USERS[i].username,
                                        RESET_SAMPLE_USERS[i].email, "password123",
                                        FALSE, salt)]
    /\ db_schema' = ResetSchema
    /\ script_run' = [name |-> "reset_database", raised |-> FALSE]
    /\ chat_messages' = <<>>
    /\ chat_sessions' = NewChatSessions
    /\ quiz_sessions' = <<>>
    /\ quiz_questions' = <<>>
    /\ UNCHANGED <<clock, folded, callvars, concvars>>
    /\ UNCHANGED <<session, flashed, http_request, http_response, body_ran>>

\* simple_setup.py: the file is removed, the tables are created, three demo
\* users are inserted
RunSimpleSetup ==
    /\ users' = [i \in 1..Len(SIMPLE_SAMPLE_USERS) |->
                    RoleUser(i, Text(SIMPLE_SAMPLE_USERS[i].username),
                             Text(SIMPLE_SAMPLE_USERS[i].email),
                             Text(SIMPLE_SAMPLE_USERS[i].role))]
    /\ db_schema' = AppSchema
    /\ script_run' = [name |-> "simple_setup", raised |-> FALSE]
    /\ chat_messages' = <<>>
    /\ chat_sessions' = NewChatSessions
    /\ quiz_sessions' = <<>>
    /\ quiz_questions' = <<>>
    /\ UNCHANGED <<clock, folded, callvars, concvars>>
    /\ UNCHANGED <<session, flashed, http_request, http_response, body_ran>>

(***************************************************************************)
(* send_message: the handler of POST /send_message, one request at a time. *)
(***************************************************************************)
\* LIMIT of the SELECT
QUERY_LIMIT == 5

\* the (session_id, user_id) of a request: two conversations of user 1, and
\* user 2 posting under the session id of the first
SessionKeys ==
    {[session_id |-> "s1", user_id |-> 1], [session_id |-> "s2", user_id |-> 1],
     [session_id |-> "s1", user_id |-> 2]}

\* what the user types in the n-th request (shorter than 50 characters)
UserMessage(n) == <<W("m" \o ToString(n))>>

\* the replies of the server while a request is handled: it is up and
\* answers with a text
SendProbeReplies == {RawReply(OK, <<W("tags")>>)}
SendGenReplies == {TextReply(<<W("Gravity is a force.")>>)}

\* the rows WHERE session_id = ? AND user_id = ?
Matching(rows, sid, uid) ==
    {rows[i] : i \in {j \in 1..Len(rows) :
                        rows[j].session_id = sid /\ rows[j].user_id = uid}}

\* ORDER BY timestamp DESC LIMIT limit: every sequence the engine may
\* return; the order of rows with equal timestamps is not determined by the
\* query
RECURSIVE OrderByTimestampDesc(_, _)
OrderByTimestampDesc(S, limit) ==
    IF S = {} \/ limit = 0 THEN {<<>>}
    ELSE UNION {{<<r>> \o rest : rest \in OrderByTimestampDesc(S \ {r}, limit - 1)} :
                    r \in {x \in S : \A y \in S : y.timestamp <= x.timestamp}}

Reverse(seq) == [i \in 1..Len(seq) |-> seq[Len(seq) + 1 - i]]

\* the list comprehension over cursor.fetchall(), then context.reverse()
ContextOf(fetched) ==
    PyList(Reverse([i \in 1..Len(fetched) |->
                PyDict(<<Pair("message", PyStr(fetched[i].message)),
                         Pair("response", fetched[i].response)>>)]))

\* generate_chat_response with the replies p (probe) and r (generation)
generate_chat_response(message, context, p, r) ==
    IF ~is_available(p) THEN UNAVAILABLE_MSG ELSE generate_response(r).val

SendMessage ==
    /\ pc = "Idle"
    /\ db_schema /= NoSchema
    /\ Len(chat_messages) < MaxRows
    /\ \E key \in SessionKeys, p \in SendProbeReplies, r \in SendGenReplies :
       \E fetched \in OrderByTimestampDesc(
                          Matching(chat_messages, key.session_id, key.user_id),
                          QUERY_LIMIT) :
        LET message == UserMessage(Len(chat_messages) + 1)
            context == ContextOf(fetched)
            ai_response == generate_chat_response(message, context, p, r)
            inserted == Append(chat_messages,
                               [id |-> Len(chat_messages) + 1,
                                session_id |-> key.session_id,
                                user_id |-> key.user_id,
                                message |-> message,
                                response |-> ai_response,
                                timestamp |-> clock])
            message_count == Cardinality({i \in 1..Len(inserted) :
                                            inserted[i].session_id = key.session_id})
        IN  /\ folded' = ContextWindow(context)
            /\ chat_messages' = inserted
            /\ chat_sessions' = IF message_count = 1
                                THEN [chat_sessions EXCEPT ![key.session_id] = message]
                                ELSE chat_sessions
    /\ UNCHANGED <<clock, notdbvars>>

\* a second passes
Tick ==
    /\ clock < MaxClock
    /\ clock' = clock + 1
    /\ UNCHANGED <<chat_messages, chat_sessions, folded, notdbvars>>

ChatNext ==
    \/ RunInitDb
    \/ SendMessage
    \/ Tick

ChatSpec == Init /\ [][ChatNext]_vars

(***************************************************************************)
(* C20: for every sequence of send_message requests, the turns folded into *)
(* the prompt of a new message are the up to 5 most recently recorded      *)
(* turns of the same session and user, in the order of recording, also     *)
(* when several turns carry the same timestamp.                            *)
(***************************************************************************)
\* the turns of (sid, uid) among rows, in the order of recording
RecordedTurns(rows, sid, uid) ==
    LET mine == SelectSeq(rows, LAMBDA x : x.session_id = sid /\ x.user_id = uid)
    IN  [i \in 1..Len(mine) |->
            PyDict(<<Pair("message", PyStr(mine[i].message)),
                     Pair("response", mine[i].response)>>)]

C20_FoldsLatestTurnsInOrder ==
    chat_messages /= <<>> =>
        LET n == Len(chat_messages)
            new == chat_messages[n]
        IN  folded = SliceLast(RecordedTurns(SubSeq(chat_messages, 1, n - 1),
                                             new.session_id, new.user_id), 5)

\* the same, for requests whose earlier turns all carry different timestamps
DistinctTimestamps(rows, sid, uid) ==
    \A x, y \in Matching(rows, sid, uid) : x.timestamp = y.timestamp => x = y

C20_DistinctTimestampsInOrder ==
    chat_messages /= <<>> =>
        LET n == Len(chat_messages)
            new == chat_messages[n]
            before == SubSeq(chat_messages, 1, n - 1)
        IN  DistinctTimestamps(before, new.session_id, new.user_id) =>
                folded = SliceLast(RecordedTurns(before, new.session_id, new.user_id), 5)

(***************************************************************************)
(* Service calls on several request threads.  The threads share the module *)
(* level ollama_client; everything else a call touches is local to it.     *)
(***************************************************************************)
\* a request as the shared client sends it
Sent(req) == [url |-> client.base_url \o req.path, req |-> req]

\* another thread is between the entry and the return of a call
OtherInCall(t) == \E u \in Threads \ {t} : threads[u].pc \in {"Probing", "Generating"}

ThreadArgs(o) ==
    IF o = "chat" THEN ThreadChatArgs
    ELSE IF o = "quiz" THEN ThreadQuizArgs
    ELSE ThreadDocArgs

\* what each service function returns when the probe fails
UnavailableResult(o, a) ==
    IF o = "chat" THEN UNAVAILABLE_MSG
    ELSE IF o = "quiz" THEN QuizUnavailable(a.topic)
    ELSE DocUnavailable(a.topic)

\* the first POST of each service function
FirstPost(o, a) ==
    IF o = "chat" THEN PostGenerate(ChatPrompt(a.message, a.context), CHAT_SYSTEM_PROMPT)
    ELSE IF o = "quiz"
    THEN PostGenerate(QuizPrompt(a.topic, a.difficulty, a.num_questions),
                      QuizSystemPrompt(a.topic, a.difficulty, a.num_questions))
    ELSE PostGenerate(SectionPrompt(SectionKeys[1], a.topic), DOC_SYSTEM_PROMPT)

\* a service function is entered on thread t: it probes the server
ThreadCall(t) ==
    /\ threads[t].pc = "Idle"
    /\ \E o \in {"chat", "quiz", "doc"} : \E a \in ThreadArgs(o) :
        threads' = [threads EXCEPT ![t] =
            [IdleThread EXCEPT !.pc = "Probing", !.op = o, !.args = a,
                               !.requests = <<Sent(GetRequest("/api/tags"))>>,
                               !.overlapped = OtherInCall(t)]]
    /\ UNCHANGED <<client, notconcvars>>

\* the probe of thread t is answered
ThreadProbed(t) ==
    /\ threads[t].pc = "Probing"
    /\ \E r \in ThreadProbeReplies :
        LET l == threads[t]
        IN  threads' = [threads EXCEPT ![t] =
                IF ~is_available(r)
                THEN [l EXCEPT !.probe = r, !.pc = "Done",
                               !.result = UnavailableResult(l.op, l.args),
                               !.overlapped = l.overlapped \/ OtherInCall(t)]
                ELSE [l EXCEPT !.probe = r, !.pc = "Generating",
                               !.requests = Append(l.requests,
                                                   Sent(FirstPost(l.op, l.args))),
                               !.overlapped = l.overlapped \/ OtherInCall(t)]]
    /\ UNCHANGED <<client, notconcvars>>

\* the POST of the chat or quiz call of thread t is answered
ThreadGenerated(t) ==
    /\ threads[t].pc = "Generating" /\ threads[t].op \in {"chat", "quiz"}
    /\ \E r \in ThreadGenReplies(threads[t].op) :
        LET l == threads[t]
            out == generate_response(r)
        IN  threads' = [threads EXCEPT ![t] =
                [l EXCEPT !.replies = Append(l.replies, r), !.pc = "Done",
                          !.result = IF l.op = "chat" THEN out.val
                                     ELSE ExtractQuiz(out.val, l.args.topic),
                          !.overlapped = l.overlapped \/ OtherInCall(t)]]
    /\ UNCHANGED <<client, notconcvars>>

\* content is one dict behind all the calls, not a local of each
ThreadDocGenerated_shared_content(t) ==
    /\ threads[t].pc = "Generating" /\ threads[t].op = "doc"
    /\ \E r \in ThreadGenReplies("doc") :
        LET l == threads[t]
            idx == Len(l.replies) + 1
            stored == StoreSection(threads[1].sections, SectionKeys[idx],
                                   generate_response(r))
            after == [l EXCEPT !.replies = Append(l.replies, r),
                               !.overlapped = l.overlapped \/ OtherInCall(t)]
            next == IF idx < Len(SectionKeys)
                    THEN [after EXCEPT !.requests = Append(l.requests,
                              Sent(PostGenerate(SectionPrompt(SectionKeys[idx + 1],
                                                              l.args.topic),
                                                DOC_SYSTEM_PROMPT)))]
                    ELSE [after EXCEPT !.pc = "Done", !.result = stored]
        IN  threads' = [u \in Threads |->
                IF u = t /\ u = 1 THEN [next EXCEPT !.sections = stored]
                ELSE IF u = t THEN next
                ELSE IF u = 1 THEN [threads[1] EXCEPT !.sections = stored]
                ELSE threads[u]]
    /\ UNCHANGED <<client, notconcvars>>

\* the POST of a section of the document call of thread t is answered
ThreadDocGenerated(t) ==
    /\ threads[t].pc = "Generating" /\ threads[t].op = "doc"
    /\ \E r \in ThreadGenReplies("doc") :
        LET l == threads[t]
            idx == Len(l.replies) + 1
            stored == StoreSection(l.sections, SectionKeys[idx], generate_response(r))
            after == [l EXCEPT !.replies = Append(l.replies, r), !.sections = stored,
                               !.overlapped = l.overlapped \/ OtherInCall(t)]
        IN  threads' = [threads EXCEPT ![t] =
                IF idx < Len(SectionKeys)
                THEN [after EXCEPT !.requests = Append(l.requests,
                          Sent(PostGenerate(SectionPrompt(SectionKeys[idx + 1],
                                                          l.args.topic),
                                            DOC_SYSTEM_PROMPT)))]
                ELSE [after EXCEPT !.pc = "Done", !.result = stored]]
    /\ UNCHANGED <<client, notconcvars>>

\* the caller on thread t takes the result
ThreadReturn(t) ==
    /\ threads[t].pc = "Done"
    /\ threads' = [threads EXCEPT ![t] = IdleThread]
    /\ UNCHANGED <<client, notconcvars>>

ConcNext ==
    \/ \E t \in Threads : ThreadCall(t)
    \/ \E t \in Threads : ThreadProbed(t)
    \/ \E t \in Threads : ThreadGenerated(t)
    \/ \E t \in Threads : ThreadDocGenerated(t)
    \/ \E t \in Threads : ThreadReturn(t)

ConcSpec == Init /\ [][ConcNext]_vars

(***************************************************************************)
(* C21: the one client is safe for concurrent reuse: when chat, quiz and   *)
(* document calls run interleaved on it, the result of each call is the    *)
(* result the call gives alone with the same arguments and the same        *)
(* replies to its own requests, and no step of a call changes the locals   *)
(* of another call or the client.                                          *)
(***************************************************************************)
\* the sections of a document call after the first n replies rs, alone
RECURSIVE SectionsAfter(_, _)
SectionsAfter(rs, n) ==
    IF n = 0 THEN PyDict(<<>>)
    ELSE StoreSection(SectionsAfter(rs, n - 1), SectionKeys[n], generate_response(rs[n]))

\* the result of the call with the locals l when it runs alone
AloneResult(l) ==
    IF ~is_available(l.probe) THEN UnavailableResult(l.op, l.args)
    ELSE IF l.op = "chat" THEN generate_response(l.replies[1]).val
    ELSE IF l.op = "quiz"
    THEN ExtractQuiz(generate_response(l.replies[1]).val, l.args.topic)
    ELSE SectionsAfter(l.replies, Len(SectionKeys))

ResultsAsAlone ==
    \A t \in Threads :
        /\ threads[t].pc = "Done" => threads[t].result = AloneResult(threads[t])
        /\ (threads[t].pc = "Generating" /\ threads[t].op = "doc") =>
              threads[t].sections = SectionsAfter(threads[t].replies,
                                                  Len(threads[t].replies))
        /\ \A i \in 1..Len(threads[t].requests) :
              threads[t].requests[i].url = OLLAMA_BASE_URL \o threads[t].requests[i].req.path

NoInterference ==
    /\ client' = client
    /\ \A t \in Threads : threads'[t] /= threads[t] =>
          \A u \in Threads \ {t} : threads'[u] = threads[u]

HasBracketPair(toks) ==
    \E i, j \in 1..Len(toks) : i < j /\ toks[i].c = "[" /\ toks[j].c = "]"

Candidate(toks) ==
    LET first == CHOOSE i \in 1..Len(toks) :
                    toks[i].c = "[" /\ \A k \in 1..(i - 1) : toks[k].c /= "["
        last == CHOOSE j \in 1..Len(toks) :
                    toks[j].c = "]" /\ \A k \in (j + 1)..Len(toks) : toks[k].c /= "]"
    IN  SubSeq(toks, first, last)

C22_OneCandidateFirstToLast ==
    QuizFromModelText =>
        LET toks == ModelTextOf(replies[1])
        IN  IF HasBracketPair(toks)
            THEN LET parsed == json_loads(Candidate(toks))
                 IN  /\ result = IF parsed.exc = "none" THEN parsed.val
                                  ELSE QuizFallback(args.topic)
                     /\ result = ExtractQuiz(PyStr(Candidate(toks)), args.topic)
            ELSE /\ ExtractTry(PyStr(toks)).exc = "fell"
                 /\ result = QuizFallback(args.topic)

\* "1) done] now: [<Q1>, <Q2>] and [more": a ']' before the candidate and a
\* '[' after it, and the two items are returned
C22_Witness ==
    /\ QuizFromModelText
    /\ ModelTextOf(replies[1]) =
         <<W("1) done"), RB, W(" now: ")>> \o RenderJson(PyList(<<Good1, Good2>>))
             \o <<W(" and "), LB, W("more")>>
    /\ result = PyList(<<Good1, Good2>>)

(***************************************************************************)
(* The web handlers of authentication: login, register, logout, and the    *)
(* decorators login_required and admin_required in front of the others.    *)
(* Texts of forms are token sequences; the token " " is white space.       *)
(***************************************************************************)
SPACE == W(" ")

\* str.strip()
RECURSIVE LStrip(_)
LStrip(toks) ==
    IF toks /= <<>> /\ Head(toks) = SPACE THEN LStrip(Tail(toks)) ELSE toks

Strip(toks) == Reverse(LStrip(Reverse(LStrip(toks))))

\* request.form.get(name, '')
FormGet(form, name) == IF name \in DOMAIN form THEN form[name] ELSE <<>>

\* str.title() on the role names
Title(word) ==
    IF word = "student" THEN "Student"
    ELSE IF word = "teacher" THEN "Teacher"
    ELSE IF word = "admin" THEN "Admin"
    ELSE word

LOGIN_ROLES == {<<W("student")>>, <<W("teacher")>>, <<W("admin")>>}
REGISTER_ROLES == {<<W("student")>>, <<W("teacher")>>}

\* the values of the role field a POST may carry
SubmittedRoles ==
    {<<>>, <<W("student")>>, <<W("teacher")>>, <<W("admin")>>,
     <<SPACE, W("admin"), SPACE>>, <<W("teacher"), SPACE>>, <<SPACE>>,
     <<W("root")>>, <<W("Admin")>>}

\* forms posted to /login: with and without a role field
LoginForms ==
    {NoForm, [k \in {"username", "password"} |->
                 IF k = "username" THEN <<W("admin")>> ELSE <<W("admin123")>>]}
        \cup {[k \in {"role"} |-> r] : r \in SubmittedRoles}

\* datetime.now().strftime('%Y%m%d%H%M%S') at the time of a login
Stamps == {"20240101120000", "20240101120001"}

Page(name) == [kind |-> "page", target |-> name]
Redirect(endpoint) == [kind |-> "redirect", target |-> endpoint]

\* the four assignments of login
LoginSession(role, stamp) ==
    [k \in {"user_id", "username", "role", "email"} |->
        IF k = "user_id" THEN PyStr(role \o <<W("_user_"), W(stamp)>>)
        ELSE IF k = "username" THEN PyStr(<<W(Title(role[1].s)), W(" User")>>)
        ELSE IF k = "role" THEN PyStr(role)
        ELSE PyStr(role \o <<W("@teacherai.com")>>)]

\* session[k] = v for each k of the domain of new
SessionUpdate(old, new) ==
    [k \in DOMAIN old \cup DOMAIN new |-> IF k \in DOMAIN new THEN new[k] ELSE old[k]]

\* the role check is made on the field as submitted, without strip()
PostLogin_no_strip ==
    /\ \E form \in LoginForms, stamp \in Stamps :
        LET role == FormGet(form, "role")
        IN  /\ http_request' = [method |-> "POST", route |-> "/login", form |-> form]
            /\ body_ran' = "login"
            /\ IF role = <<>> \/ role \notin LOGIN_ROLES
               THEN /\ flashed' = <<"Please select a valid role">>
                    /\ http_response' = Page("login.html")
                    /\ UNCHANGED session
               ELSE /\ session' = SessionUpdate(session, LoginSession(role, stamp))
                    /\ flashed' = <<"Welcome! You are now logged in">>
                    /\ http_response' = IF role = <<W("admin")>>
                                   THEN Redirect("admin_dashboard")
                                   ELSE Redirect("dashboard")
            /\ UNCHANGED <<users, notwebvars>>

\* POST /login
PostLogin ==
    /\ \E form \in LoginForms, stamp \in Stamps :
        LET role == Strip(FormGet(form, "role"))
        IN  /\ http_request' = [method |-> "POST", route |-> "/login", form |-> form]
            /\ body_ran' = "login"
            /\ IF role = <<>> \/ role \notin LOGIN_ROLES
               THEN /\ flashed' = <<"Please select a valid role">>
                    /\ http_response' = Page("login.html")
                    /\ UNCHANGED session
               ELSE /\ session' = SessionUpdate(session, LoginSession(role, stamp))
                    /\ flashed' = <<"Welcome! You are now logged in">>
                    /\ http_response' = IF role = <<W("admin")>>
                                   THEN Redirect("admin_dashboard")
                                   ELSE Redirect("dashboard")
            /\ UNCHANGED <<users, notwebvars>>

\* GET /login
GetLogin ==
    /\ http_request' = [method |-> "GET", route |-> "/login", form |-> NoForm]
    /\ body_ran' = "login"
    /\ flashed' = <<>>
    /\ http_response' = Page("login.html")
    /\ UNCHANGED <<session, users, notwebvars>>

\* forms posted to /register
Usernames == {<<>>, <<W("ann")>>, <<W("bob")>>}
Emails == {<<W("ann@example.com")>>, <<W("bob@example.com"), SPACE>>}
RegisterForms ==
    {[k \in {"username", "email", "role"} |->
        IF k = "username" THEN u ELSE IF k = "email" THEN e ELSE r] :
        u \in Usernames, e \in Emails,
        r \in {<<W("student")>>, <<W("teacher")>>, <<W("admin")>>, <<>>}}

UserExists(rows, username, email) ==
    /\ \E i \in 1..Len(rows) : rows[i].username = username \/ rows[i].email = email

\* POST /register; dbok is whether the database can be opened and written.
\* The SELECT raises without a users table, the INSERT raises on a users
\* table without the column role.
PostRegister ==
    /\ \E form \in RegisterForms, dbok \in BOOLEAN :
        LET username == Strip(FormGet(form, "username"))
            email == Strip(FormGet(form, "email"))
            role == Strip(FormGet(form, "role"))
            user_id == Len(users) + 1
        IN  /\ http_request' = [method |-> "POST", route |-> "/register", form |-> form]
            /\ body_ran' = "register"
            /\ IF username = <<>> \/ email = <<>> \/ role = <<>>
               THEN /\ flashed' = <<"All fields are required">>
                    /\ http_response' = Page("register.html")
                    /\ UNCHANGED <<session, users>>
               ELSE IF role \notin REGISTER_ROLES
               THEN /\ flashed' = <<"Please select a valid role">>
                    /\ http_response' = Page("register.html")
                    /\ UNCHANGED <<session, users>>
               ELSE IF ~dbok \/ db_schema.users = "none"
               THEN /\ flashed' = <<"Registration failed. Please try again.">>
                    /\ http_response' = Page("register.html")
                    /\ UNCHANGED <<session, users>>
               ELSE IF UserExists(users, username, email)
               THEN /\ flashed' = <<"Username or email already exists">>
                    /\ http_response' = Page("register.html")
                    /\ UNCHANGED <<session, users>>
               ELSE IF db_schema.users /= "role"
               THEN /\ flashed' = <<"Registration failed. Please try again.">>
                    /\ http_response' = Page("register.html")
                    /\ UNCHANGED <<session, users>>
               ELSE /\ users' = Append(users, RoleUser(user_id, username, email, role))
                    /\ session' = SessionUpdate(session,
                          [k \in {"user_id", "username", "role", "email"} |->
                              IF k = "user_id" THEN PyNum(ToString(user_id))
                              ELSE IF k = "username" THEN PyStr(username)
                              ELSE IF k = "role" THEN PyStr(role)
                              ELSE PyStr(email)])
                    /\ flashed' = <<"Account created successfully!">>
                    /\ http_response' = Redirect("dashboard")
            /\ UNCHANGED notwebvars

\* GET /logout
Logout ==
    /\ http_request' = [method |-> "GET", route |-> "/logout", form |-> NoForm]
    /\ body_ran' = "logout"
    /\ session' = EmptySession
    /\ flashed' = <<"You have been logged out successfully">>
    /\ http_response' = Redirect("index")
    /\ UNCHANGED <<users, notwebvars>>

\* GET /
Index ==
    /\ http_request' = [method |-> "GET", route |-> "/", form |-> NoForm]
    /\ body_ran' = "index"
    /\ flashed' = <<>>
    /\ http_response' = IF "user_id" \in DOMAIN session THEN Redirect("dashboard")
                   ELSE Page("index.html")
    /\ UNCHANGED <<session, users, notwebvars>>

\* the view functions behind login_required and behind admin_required
LoginRequiredViews ==
    {"dashboard", "chat", "new_chat", "send_message", "get_chat_history",
     "pdf_generator", "generate_pdf", "quiz", "start_quiz", "submit_quiz",
     "quiz_history"}
AdminRequiredViews == {"admin_dashboard", "admin_users", "admin_analytics"}

\* session.get('role')
SessionGet(key) == IF key \in DOMAIN session THEN session[key] ELSE PyNone

\* a request for a view behind login_required: the decorator, then the view
RequestLoginRequired ==
    /\ \E f \in LoginRequiredViews :
        /\ http_request' = [method |-> "ANY", route |-> f, form |-> NoForm]
        /\ flashed' = <<>>
        /\ IF "user_id" \notin DOMAIN session
           THEN /\ http_response' = Redirect("login")
                /\ body_ran' = "none"
           ELSE /\ http_response' = [kind |-> "view", target |-> f]
                /\ body_ran' = f
        /\ UNCHANGED <<session, users, notwebvars>>

\* the role is not looked at
RequestAdminRequired_any_role ==
    /\ \E f \in AdminRequiredViews :
        /\ http_request' = [method |-> "ANY", route |-> f, form |-> NoForm]
        /\ IF "user_id" \notin DOMAIN session
           THEN /\ http_response' = Redirect("login")
                /\ body_ran' = "none"
                /\ flashed' = <<>>
           ELSE /\ http_response' = [kind |-> "view", target |-> f]
                /\ body_ran' = f
                /\ flashed' = <<>>
        /\ UNCHANGED <<session, users, notwebvars>>

\* a request for a view behind admin_required: the decorator, then the view
RequestAdminRequired ==
    /\ \E f \in AdminRequiredViews :
        /\ http_request' = [method |-> "ANY", route |-> f, form |-> NoForm]
        /\ IF "user_id" \notin DOMAIN session
           THEN /\ http_response' = Redirect("login")
                /\ body_ran' = "none"
                /\ flashed' = <<>>
           ELSE IF SessionGet("role") /= PyStr(<<W("admin")>>)
           THEN /\ http_response' = Redirect("dashboard")
                /\ body_ran' = "none"
                /\ flashed' = <<"Access denied. Admin privileges required.">>
           ELSE /\ http_response' = [kind |-> "view", target |-> f]
                /\ body_ran' = f
                /\ flashed' = <<>>
        /\ UNCHANGED <<session, users, notwebvars>>

WebNext ==
    \/ RunInitDb
    \/ PostLogin
    \/ GetLogin
    \/ PostRegister
    \/ Logout
    \/ Index
    \/ RequestLoginRequired
    \/ RequestAdminRequired

WebSpec == Init /\ [][WebNext]_vars

(***************************************************************************)
(* C23: a POST to /login answers with the login page or a redirect, and    *)
(* establishes a session (user_id, username, role, email) exactly when the *)
(* submitted role is student, teacher or admin; otherwise the session is   *)
(* left unchanged.  As stated: the role is taken as submitted, and the     *)
(* role stored is the submitted one.                                       *)
(***************************************************************************)
LoginPosted == http_request'.route = "/login" /\ http_request'.method = "POST"

IdentityKeys == {"user_id", "username", "role", "email"}

C23_StepAsSubmitted ==
    LoginPosted =>
        LET submitted == FormGet(http_request'.form, "role")
        IN  /\ http_response' = Page("login.html") \/ http_response'.kind = "redirect"
            /\ IF submitted \in LOGIN_ROLES
               THEN /\ DOMAIN session' = IdentityKeys
                    /\ session'["role"] = PyStr(submitted)
               ELSE session' = session

C23_SessionIffSubmittedRole == [][C23_StepAsSubmitted]_vars

(***************************************************************************)
(* C23, amended: the role is the submitted field with the white space      *)
(* around it removed.  A POST to /login answers with the login page or a   *)
(* redirect; it sets user_id, username, role and email exactly when that   *)
(* role is student, teacher or admin, the stored role being that role;     *)
(* with a missing or other role the session is left unchanged.             *)
(***************************************************************************)
C23_StepAsStripped ==
    LoginPosted =>
        LET role == Strip(FormGet(http_request'.form, "role"))
        IN  /\ body_ran' = "login"
            /\ IF role \in LOGIN_ROLES
               THEN /\ http_response' = Redirect(IF role = <<W("admin")>>
                                                 THEN "admin_dashboard" ELSE "dashboard")
                    /\ DOMAIN session' = IdentityKeys
                    /\ session'["role"] = PyStr(role)
                    /\ session'["username"] = PyStr(<<W(Title(role[1].s)), W(" User")>>)
                    /\ session'["email"] = PyStr(role \o <<W("@teacherai.com")>>)
                    /\ \E stamp \in Stamps :
                          session'["user_id"] = PyStr(role \o <<W("_user_"), W(stamp)>>)
               ELSE /\ http_response' = Page("login.html")
                    /\ session' = session

C23_SessionIffStrippedRole == [][C23_StepAsStripped]_vars

\* " admin " was posted and the visitor is logged in with the role admin
C23_Witness ==
    /\ http_request.route = "/login" /\ http_request.method = "POST"
    /\ FormGet(http_request.form, "role") = <<SPACE, W("admin"), SPACE>>
    /\ http_response = Redirect("admin_dashboard")
    /\ DOMAIN session = IdentityKeys
    /\ session["role"] = PyStr(<<W("admin")>>)

(***************************************************************************)
(* C25: the body of a view behind login_required runs only when the        *)
(* session holds a user_id, the body of a view behind admin_required only  *)
(* when it holds a user_id and the role admin; otherwise the request is    *)
(* redirected (to login without a user_id, to the dashboard without the    *)
(* admin role) and nothing else changes.  Logout empties the session, and  *)
(* an empty session stays empty until a login or a registration succeeds.  *)
(***************************************************************************)
ProtectedViews == LoginRequiredViews \cup AdminRequiredViews

Guarded ==
    http_request'.route \in ProtectedViews =>
        LET logged_in == "user_id" \in DOMAIN session
            is_admin == logged_in /\ "role" \in DOMAIN session
                            /\ session["role"] = PyStr(<<W("admin")>>)
            allowed == IF http_request'.route \in AdminRequiredViews
                       THEN is_admin ELSE logged_in
        IN  /\ session' = session /\ users' = users
            /\ body_ran' \in {"none", http_request'.route}
            /\ body_ran' /= "none" <=> allowed
            /\ ~allowed =>
                  http_response' = Redirect(IF logged_in THEN "dashboard" ELSE "login")
            /\ allowed => http_response'.kind = "view"

LoggedOut ==
    (http_request'.route = "/logout") => session' = EmptySession

StaysLoggedOut ==
    (session = EmptySession /\ session' /= EmptySession) =>
        /\ http_request'.method = "POST"
        /\ http_request'.route \in {"/login", "/register"}
        /\ http_response'.kind = "redirect"
        /\ "user_id" \in DOMAIN session'

NoBodyWithoutUser ==
    (body_ran \in ProtectedViews => "user_id" \in DOMAIN session)
        /\ (body_ran \in AdminRequiredViews => session["role"] = PyStr(<<W("admin")>>))

SetupNext ==
    \/ RunInitDb
    \/ RunSetupDatabase
    \/ RunResetDatabase
    \/ RunSimpleSetup
    \/ PostRegister

SetupSpec == Init /\ [][SetupNext]_vars

(***************************************************************************)
(* C24: after setup_database has run, on an empty database or on one left  *)
(* by setup_database, reset_database, simple_setup or init_db, the users   *)
(* table exists and holds exactly one user admin, flagged is_admin, whose  *)
(* hash is that of admin123, and each sample user exactly once; the run    *)
(* raised no error.                                                        *)
(***************************************************************************)
UsersNamed(username) == {i \in 1..Len(users) : users[i].username = Text(username)}

C24_SetupDatabaseLeavesAdmin ==
    script_run.name = "setup_database" =>
        /\ ~script_run.raised
        /\ db_schema.users /= "none"
        /\ Cardinality(UsersNamed("admin")) = 1
        /\ \A i \in UsersNamed("admin") :
              /\ "is_admin" \in DOMAIN users[i] /\ users[i].is_admin
              /\ check_password_hash(users[i].password_hash, "admin123")
        /\ \A n \in 1..Len(SETUP_SAMPLE_USERS) :
              Cardinality(UsersNamed(SETUP_SAMPLE_USERS[n].username)) = 1

\* the same for runs on a database that is empty or has the users table
\* with passwords
C24_SetupOnPasswordSchema ==
    (script_run.name = "setup_database" /\ db_schema.users = "password") =>
        /\ ~script_run.raised
        /\ Cardinality(UsersNamed("admin")) = 1
        /\ \A i \in UsersNamed("admin") :
              /\ users[i].is_admin
              /\ check_password_hash(users[i].password_hash, "admin123")
        /\ \A n \in 1..Len(SETUP_SAMPLE_USERS) :
              Cardinality(UsersNamed(SETUP_SAMPLE_USERS[n].username)) = 1

(***************************************************************************)
(* start_quiz and submit_quiz: the handlers of POST /start_quiz and        *)
(* POST /submit_quiz behind login_required, one request at a time.         *)
(***************************************************************************)
\* the items of a quiz that the model may return beyond ModelItems
NoCorrect ==
    PyDict(<<Pair("question", PyStr(<<W("Q5?")>>)), Pair("options", ABCD)>>)
ListCorrect ==
    PyDict(<<Pair("question", PyStr(<<W("Q6?")>>)), Pair("options", ABCD),
             Pair("correct", PyList(<<PyStr(<<W("A")>>)>>))>>)

\* what the server answers to the probe and to the POST of one start_quiz
QuizServers ==
    {[probe |-> ConnErrReply(<<W("refused")>>), reply |-> TimeoutReply]}
        \cup {[probe |-> JsonReply(OK, PyDict(<<>>)), reply |-> r] :
                r \in {TextReply(RenderJson(PyList(<<>>))),
                       TextReply(<<W("Here: ")>> \o RenderJson(PyList(<<Good1, Good2>>))),
                       TextReply(RenderJson(PyList(<<Good1, ThreeOptions>>))),
                       TextReply(RenderJson(PyList(<<Good2, NoCorrect>>))),
                       TextReply(RenderJson(PyList(<<Good1, ListCorrect>>)))}}

\* generate_quiz_questions as a function of the two answers of the server
generate_quiz_questions(topic, server) ==
    IF ~is_available(server.probe) THEN QuizUnavailable(topic)
    ELSE ExtractQuiz(generate_response(server.reply).val, topic)

\* forms posted to /start_quiz
StartForms ==
    {[k \in {} |-> ""], [k \in {"topic"} |-> "Recursion"],
     [k \in {"topic", "difficulty"} |-> IF k = "topic" THEN "Recursion" ELSE "beginner"]}

\* the most quiz sessions recorded in one database file
MaxQuizzes == 2

\* a REAL score as a quotient; 0 as written by start_quiz
Percent(correct, total) == [num |-> 100 * correct, den |-> total]
ZeroScore == [num |-> 0, den |-> 1]

\* a value as a TEXT column stores it
SqlText(x) ==
    IF x.t = "bool" THEN <<W(IF x.v = <<W("True")>> THEN "1" ELSE "0")>> ELSE x.v

\* whether sqlite3 binds a value as a parameter
Bindable(x) == x.t \in {"none", "str", "num", "bool"}

\* the parameters of the INSERT of one question and the INSERT itself: the
\* row, or the exception
QuestionRow(id, session_id, q) ==
    IF q.t /= "dict"
    THEN Raise("TypeError", <<W("object is not subscriptable")>>)
    ELSE IF ~HasKey(q, "question") THEN Raise("KeyError", <<W("question")>>)
    ELSE IF ~HasKey(q, "options") THEN Raise("KeyError", <<W("options")>>)
    ELSE LET options == DictGet(q, "options", PyNone)
         IN  IF options.t /= "list"
             THEN Raise("TypeError", <<W("object is not subscriptable")>>)
             ELSE IF Len(options.v) < 4
             THEN Raise("IndexError", <<W("list index out of range")>>)
             ELSE IF ~HasKey(q, "correct") THEN Raise("KeyError", <<W("correct")>>)
             ELSE LET params == <<DictGet(q, "question", PyNone), options.v[1],
                                  options.v[2], options.v[3], options.v[4],
                                  DictGet(q, "correct", PyNone),
                                  DictGet(q, "explanation", PyStr(<<>>))>>
                  IN  IF \E n \in 1..7 : ~Bindable(params[n])
                      THEN Raise("ProgrammingError", <<W("Error binding parameter")>>)
                      ELSE IF \E n \in 1..6 : params[n].t = "none"
                      THEN Raise("IntegrityError", <<W("NOT NULL constraint failed")>>)
                      ELSE Ret([id |-> id, session_id |-> session_id,
                                question |-> SqlText(params[1]),
                                options |-> [n \in 1..4 |-> SqlText(params[n + 1])],
                                correct_answer |-> SqlText(params[6]),
                                explanation |-> params[7],
                                user_answer |-> PyNone])

\* the loop of start_quiz over the questions from the n-th on: the table
\* after the loop, or the exception of the first INSERT that fails and the
\* table as the statements before it left it
RECURSIVE InsertQuestions(_, _, _, _)
InsertQuestions(rows, questions, n, session_id) ==
    IF n > Len(questions) THEN [exc |-> "none", rows |-> rows]
    ELSE LET r == QuestionRow(Len(rows) + 1, session_id, questions[n])
         IN  IF r.exc /= "none" THEN [exc |-> r.exc, rows |-> rows]
             ELSE InsertQuestions(Append(rows, r.val), questions, n + 1, session_id)

QuizSessionRow(id, user_id, topic, difficulty, total_questions) ==
    [id |-> id, user_id |-> user_id, topic |-> topic, difficulty |-> difficulty,
     total_questions |-> total_questions, correct_answers |-> 0, score |-> ZeroScore,
     completed_at |-> "start"]

ServerError(exc) == [kind |-> "error", target |-> exc]
BadRequest == [kind |-> "error", target |-> "BadRequestKeyError"]

\* every statement is committed by itself
StartQuiz_commit_per_statement ==
    /\ Len(quiz_sessions) < MaxQuizzes
    /\ \E form \in StartForms, server \in QuizServers, dbok \in BOOLEAN :
        /\ http_request' = [method |-> "POST", route |-> "/start_quiz", form |-> form]
        /\ flashed' = <<>>
        /\ IF "user_id" \notin DOMAIN session
           THEN /\ http_response' = Redirect("login")
                /\ body_ran' = "none"
                /\ UNCHANGED <<quiz_sessions, quiz_questions>>
           ELSE /\ body_ran' = "start_quiz"
                /\ IF "topic" \notin DOMAIN form
                   THEN /\ http_response' = BadRequest
                        /\ UNCHANGED <<quiz_sessions, quiz_questions>>
                   ELSE LET topic == form["topic"]
                            difficulty == IF "difficulty" \in DOMAIN form
                                          THEN form["difficulty"] ELSE "intermediate"
                            questions == generate_quiz_questions(topic, server)
                            quiz_session_id == Len(quiz_sessions) + 1
                            saved == InsertQuestions(quiz_questions, questions.v, 1,
                                                     quiz_session_id)
                        IN  IF ~dbok \/ db_schema.quiz /= "full"
                            THEN /\ http_response' = ServerError("OperationalError")
                                 /\ UNCHANGED <<quiz_sessions, quiz_questions>>
                            ELSE /\ quiz_sessions' =
                                        Append(quiz_sessions,
                                               QuizSessionRow(quiz_session_id,
                                                              session["user_id"].v, topic,
                                                              difficulty, Len(questions.v)))
                                 /\ quiz_questions' = saved.rows
                                 /\ http_response' =
                                        IF saved.exc /= "none" THEN ServerError(saved.exc)
                                        ELSE [kind |-> "page", target |-> "take_quiz.html",
                                              questions |-> questions,
                                              quiz_id |-> quiz_session_id]
    /\ UNCHANGED <<session, users, db_schema, script_run>>
    /\ UNCHANGED <<callvars, dbvars, concvars>>

\* POST /start_quiz.  The INSERTs run in one transaction that is committed
\* after the loop; an exception before the commit ends the request with a
\* server error and the transaction is rolled back with the connection.
\* dbok is whether the database can be opened and written.
StartQuiz ==
    /\ Len(quiz_sessions) < MaxQuizzes
    /\ \E form \in StartForms, server \in QuizServers, dbok \in BOOLEAN :
        /\ http_request' = [method |-> "POST", route |-> "/start_quiz", form |-> form]
        /\ flashed' = <<>>
        /\ IF "user_id" \notin DOMAIN session
           THEN /\ http_response' = Redirect("login")
                /\ body_ran' = "none"
                /\ UNCHANGED <<quiz_sessions, quiz_questions>>
           ELSE /\ body_ran' = "start_quiz"
                /\ IF "topic" \notin DOMAIN form
                   THEN /\ http_response' = BadRequest
                        /\ UNCHANGED <<quiz_sessions, quiz_questions>>
                   ELSE LET topic == form["topic"]
                            difficulty == IF "difficulty" \in DOMAIN form
                                          THEN form["difficulty"] ELSE "intermediate"
                            questions == generate_quiz_questions(topic, server)
                            quiz_session_id == Len(quiz_sessions) + 1
                            saved == InsertQuestions(quiz_questions, questions.v, 1,
                                                     quiz_session_id)
                        IN  IF ~dbok \/ db_schema.quiz /= "full"
                            THEN /\ http_response' = ServerError("OperationalError")
                                 /\ UNCHANGED <<quiz_sessions, quiz_questions>>
                            ELSE IF saved.exc /= "none"
                            THEN /\ http_response' = ServerError(saved.exc)
                                 /\ UNCHANGED <<quiz_sessions, quiz_questions>>
                            ELSE /\ quiz_sessions' =
                                        Append(quiz_sessions,
                                               QuizSessionRow(quiz_session_id,
                                                              session["user_id"].v, topic,
                                                              difficulty, Len(questions.v)))
                                 /\ quiz_questions' = saved.rows
                                 /\ http_response' =
                                        [kind |-> "page", target |-> "take_quiz.html",
                                         questions |-> questions,
                                         quiz_id |-> quiz_session_id]
    /\ UNCHANGED <<session, users, db_schema, script_run>>
    /\ UNCHANGED <<callvars, dbvars, concvars>>

\* the value of the form field quiz_id compared with an INTEGER column: a
\* text that reads as an integer is compared as that integer, any other
\* text equals no integer
IntegerAffinity(text) ==
    IF \E n \in 0..9 : ToString(n) = text
    THEN CHOOSE n \in 0..9 : ToString(n) = text
    ELSE -1

\* forms posted to /submit_quiz, without the fields of the answers
SubmitForms ==
    {[k \in {} |-> ""]} \cup {[k \in {"quiz_id"} |-> quiz_id] : quiz_id \in {"1", "2", "abc"}}

\* the answers posted to /submit_quiz: for a question id, the value of the
\* field question_<id>, "absent" where the form has no such field
AnswerSheets ==
    {[q_id \in 1..(2 * MaxQuizzes) |-> a] : a \in {"absent", "A"}}
        \cup {[q_id \in 1..(2 * MaxQuizzes) |-> IF q_id % 2 = 1 THEN "B" ELSE ""]}

\* answers.get(f'question_{q_id}', '')
AnswerGet(answers, q_id) ==
    IF answers[q_id] \in {"absent", ""} THEN <<>> ELSE <<W(answers[q_id])>>

\* the rows of SELECT ... FROM quiz_questions WHERE session_id = ?
QuestionsOf(rows, quiz_id) ==
    {i \in 1..Len(rows) : rows[i].session_id = IntegerAffinity(quiz_id)}

\* the count of the earlier submission is added to
SubmitQuiz_accumulates ==
    /\ \E form \in SubmitForms, answers \in AnswerSheets, dbok \in BOOLEAN :
        /\ http_request' = [method |-> "POST", route |-> "/submit_quiz", form |-> form]
        /\ flashed' = <<>>
        /\ IF "user_id" \notin DOMAIN session
           THEN /\ http_response' = Redirect("login")
                /\ body_ran' = "none"
                /\ UNCHANGED <<quiz_sessions, quiz_questions>>
           ELSE /\ body_ran' = "submit_quiz"
                /\ IF "quiz_id" \notin DOMAIN form
                   THEN /\ http_response' = BadRequest
                        /\ UNCHANGED <<quiz_sessions, quiz_questions>>
                   ELSE IF ~dbok \/ db_schema.quiz = "none"
                   THEN /\ http_response' = ServerError("OperationalError")
                        /\ UNCHANGED <<quiz_sessions, quiz_questions>>
                   ELSE LET quiz_id == form["quiz_id"]
                            questions == QuestionsOf(quiz_questions, quiz_id)
                            correct_count ==
                                Cardinality({i \in questions :
                                    AnswerGet(answers, quiz_questions[i].id) =
                                        quiz_questions[i].correct_answer})
                            total_questions == Cardinality(questions)
                            score == IF total_questions > 0
                                     THEN Percent(correct_count, total_questions)
                                     ELSE ZeroScore
                        IN  /\ quiz_questions' =
                                  [i \in 1..Len(quiz_questions) |->
                                      IF i \in questions
                                      THEN [quiz_questions[i] EXCEPT !.user_answer =
                                              PyStr(AnswerGet(answers, quiz_questions[i].id))]
                                      ELSE quiz_questions[i]]
                            /\ quiz_sessions' =
                                  [i \in 1..Len(quiz_sessions) |->
                                      IF quiz_sessions[i].id = IntegerAffinity(quiz_id)
                                      THEN [quiz_sessions[i] EXCEPT
                                              !.correct_answers = @ + correct_count,
                                              !.score = score,
                                              !.completed_at = "submit"]
                                      ELSE quiz_sessions[i]]
                            /\ http_response' =
                                  [kind |-> "page", target |-> "quiz_result.html",
                                   correct |-> correct_count, total |-> total_questions]
    /\ UNCHANGED <<session, users, db_schema, script_run>>
    /\ UNCHANGED <<callvars, dbvars, concvars>>

\* POST /submit_quiz: every question of the session gets the submitted
\* answer, the session gets the count of the right ones and the score; one
\* transaction, committed at the end
SubmitQuiz ==
    /\ \E form \in SubmitForms, answers \in AnswerSheets, dbok \in BOOLEAN :
        /\ http_request' = [method |-> "POST", route |-> "/submit_quiz", form |-> form]
        /\ flashed' = <<>>
        /\ IF "user_id" \notin DOMAIN session
           THEN /\ http_response' = Redirect("login")
                /\ body_ran' = "none"
                /\ UNCHANGED <<quiz_sessions, quiz_questions>>
           ELSE /\ body_ran' = "submit_quiz"
                /\ IF "quiz_id" \notin DOMAIN form
                   THEN /\ http_response' = BadRequest
                        /\ UNCHANGED <<quiz_sessions, quiz_questions>>
                   ELSE IF ~dbok \/ db_schema.quiz = "none"
                   THEN /\ http_response' = ServerError("OperationalError")
                        /\ UNCHANGED <<quiz_sessions, quiz_questions>>
                   ELSE LET quiz_id == form["quiz_id"]
                            questions == QuestionsOf(quiz_questions, quiz_id)
                            correct_count ==
                                Cardinality({i \in questions :
                                    AnswerGet(answers, quiz_questions[i].id) =
                                        quiz_questions[i].correct_answer})
                            total_questions == Cardinality(questions)
                            score == IF total_questions > 0
                                     THEN Percent(correct_count, total_questions)
                                     ELSE ZeroScore
                        IN  /\ quiz_questions' =
                                  [i \in 1..Len(quiz_questions) |->
                                      IF i \in questions
                                      THEN [quiz_questions[i] EXCEPT !.user_answer =
                                              PyStr(AnswerGet(answers, quiz_questions[i].id))]
                                      ELSE quiz_questions[i]]
                            /\ quiz_sessions' =
                                  [i \in 1..Len(quiz_sessions) |->
                                      IF quiz_sessions[i].id = IntegerAffinity(quiz_id)
                                      THEN [quiz_sessions[i] EXCEPT
                                              !.correct_answers = correct_count,
                                              !.score = score,
                                              !.completed_at = "submit"]
                                      ELSE quiz_sessions[i]]
                            /\ http_response' =
                                  [kind |-> "page", target |-> "quiz_result.html",
                                   correct |-> correct_count, total |-> total_questions]
    /\ UNCHANGED <<session, users, db_schema, script_run>>
    /\ UNCHANGED <<callvars, dbvars, concvars>>

\* POST /login of a student: the case of PostLogin that opens the session
\* of the quiz requests
PostLoginStudent ==
    /\ LET form == [k \in {"role"} |-> <<W("student")>>]
           role == Strip(FormGet(form, "role"))
       IN  /\ http_request' = [method |-> "POST", route |-> "/login", form |-> form]
           /\ body_ran' = "login"
           /\ session' = SessionUpdate(session, LoginSession(role, "20240101120000"))
           /\ flashed' = <<"Welcome! You are now logged in">>
           /\ http_response' = Redirect("dashboard")
    /\ UNCHANGED <<users, notwebvars>>

QuizNext ==
    \/ RunInitDb
    \/ PostLoginStudent
    \/ StartQuiz
    \/ SubmitQuiz

QuizSpec == Init /\ [][QuizNext]_vars

(***************************************************************************)
(* C26: start_quiz is atomic.  Every committed row of quiz_sessions has    *)
(* total_questions = the number of rows of quiz_questions with its         *)
(* session_id = the number of items generate_quiz_questions returned; a    *)
(* call that aborts on a malformed item leaves no row behind.              *)
(***************************************************************************)
RowsOfSession(id) == {i \in 1..Len(quiz_questions) : quiz_questions[i].session_id = id}

TotalIsRowCount ==
    \A i \in 1..Len(quiz_sessions) :
        quiz_sessions[i].total_questions = Cardinality(RowsOfSession(quiz_sessions[i].id))

StartQuizPosted == http_request'.route = "/start_quiz"

\* a start_quiz step that shows the quiz has committed one session with as
\* many questions as were returned; any other start_quiz step leaves the
\* tables as they were
StartQuizAllOrNothing ==
    StartQuizPosted =>
        IF http_response'.target = "take_quiz.html"
        THEN /\ Len(quiz_sessions') = Len(quiz_sessions) + 1
             /\ quiz_sessions'[Len(quiz_sessions')].total_questions =
                    Len(http_response'.questions.v)
             /\ Len(quiz_questions') = Len(quiz_questions) + Len(http_response'.questions.v)
             /\ SubSeq(quiz_questions', 1, Len(quiz_questions)) = quiz_questions
             /\ SubSeq(quiz_sessions', 1, Len(quiz_sessions)) = quiz_sessions
        ELSE /\ quiz_sessions' = quiz_sessions
             /\ quiz_questions' = quiz_questions

C26_StartQuizAtomic == []TotalIsRowCount /\ [][StartQuizAllOrNothing]_vars

\* a call has aborted on its second item after a quiz of two questions was
\* committed
C26_Witness ==
    /\ http_request.route = "/start_quiz"
    /\ http_response = ServerError("IndexError")
    /\ Len(quiz_sessions) = 1
    /\ quiz_sessions[1].total_questions = 2
    /\ Len(quiz_questions) = 2

(***************************************************************************)
(* C27: after any sequence of start_quiz and submit_quiz calls, repeated   *)
(* submissions included, every quiz session has 0 <= correct_answers <=    *)
(* total_questions, correct_answers is the number of its questions whose   *)
(* recorded user_answer equals the stored correct_answer, and its score is *)
(* 0 when it has no questions.                                             *)
(***************************************************************************)
RightAnswers(id) ==
    {i \in RowsOfSession(id) :
        /\ quiz_questions[i].user_answer.t = "str"
        /\ quiz_questions[i].user_answer.v = quiz_questions[i].correct_answer}

C27_ScoreMatchesAnswers ==
    \A i \in 1..Len(quiz_sessions) :
        LET s == quiz_sessions[i]
        IN  /\ 0 <= s.correct_answers
            /\ s.correct_answers <= s.total_questions
            /\ s.correct_answers = Cardinality(RightAnswers(s.id))
            /\ s.total_questions = 0 => s.score.num = 0

\* one submitted quiz with one of two answers right, one submitted quiz
\* without questions
C27_Witness ==
    /\ http_request.route = "/submit_quiz"
    /\ Len(quiz_sessions) = 2
    /\ \E i, j \in 1..2 :
        /\ quiz_sessions[i].completed_at = "submit"
        /\ quiz_sessions[i].total_questions = 2
        /\ quiz_sessions[i].correct_answers = 1
        /\ quiz_sessions[j].completed_at = "submit"
        /\ quiz_sessions[j].total_questions = 0

====
